---- MODULE Spec2Model ----
(***************************************************************************)
(* A model of the hiera lookup engine: the data_hash / data_dig providers  *)
(* and their cache, the plugin registry with its child processes, and the  *)
(* hierarchy configuration loader.                                         *)
(***************************************************************************)
EXTENDS Integers, Sequences, FiniteSets, TLC

\* ------------------------------------------------------------------------
\* Bounds
\* ------------------------------------------------------------------------
NumCallers == 2
MaxLookups == 3
NumThreads == 2
MaxSpawns == 2
MaxOps == 3
MaxKeys == 3
MaxEntries == 2
MaxTokens == 2
MaxFuncs == 3
MaxGets == 3
MaxCalls == 3
MaxResolves == 2
MaxDepth == 4
MaxKills == 3

\* ------------------------------------------------------------------------
\* Providers (internal/datahashprovider.go, internal/datadigprovider.go)
\* ------------------------------------------------------------------------
VARIABLES hashes, hashesLock, dhProviderFunc, ddProviderFunc,
          ppc, pkind, ploc, pres, pleft,
          hashCalls, hashPanics, digCalls, digLookups,
          dhLoads, ddLoads, nextHash, doubleHits

provVars == <<hashes, hashesLock, dhProviderFunc, ddProviderFunc,
              ppc, pkind, ploc, pres, pleft,
              hashCalls, hashPanics, digCalls, digLookups,
              dhLoads, ddLoads, nextHash, doubleHits>>

\* ------------------------------------------------------------------------
\* Plugin registry and child processes (the plugin source in part_000)
\* ------------------------------------------------------------------------
VARIABLES plugins, pluginsNil, regLock,
          childState, childPath, childSig, childKill,
          plProcess, plAddr, plFuncs, plLock, metaCh,
          nextPid, spawned,
          tpc, tpath, tpid, thsk, tresp, tres, tstopped, opsLeft, failedCalls,
          recovered

plugVars == <<plugins, pluginsNil, regLock,
              childState, childPath, childSig, childKill,
              plProcess, plAddr, plFuncs, plLock, metaCh,
              nextPid, spawned,
              tpc, tpath, tpid, thsk, tresp, tres, tstopped, opsLeft, failedCalls,
              recovered>>

\* ------------------------------------------------------------------------
\* Hierarchy configuration (the config source in part_000)
\* ------------------------------------------------------------------------
VARIABLES eHash, ePhase, eEntry, eErr,
          cIn, cScope, cPhase, cPos, cNames, cEntries, cCfg, cErr,
          cDefaults, cProviders

entryVars == <<eHash, ePhase, eEntry, eErr>>
cfgVars == <<cIn, cScope, cPhase, cPos, cNames, cEntries, cCfg, cErr,
             cDefaults, cProviders>>

\* ------------------------------------------------------------------------
\* Interpolation with methods and the name stack of an invocation
\* (impl/interpolate.go, session.Invocation in part_001)
\* ------------------------------------------------------------------------
VARIABLES iData, iScope, iAllow, iStr, iPhase, iFrames, iStack, iResult,
          iChanged, iErr, iOpt

iplVars == <<iData, iScope, iAllow, iStr, iPhase, iFrames, iStack, iResult,
             iChanged, iErr, iOpt>>

\* ------------------------------------------------------------------------
\* The resolved configuration and the lookup of a key (hieraCfg.Resolve and
\* resolvedConfig in part_000)
\* ------------------------------------------------------------------------
VARIABLES lProv, lDefault, lCaller, lKey, lPhase, lOptions, lMode, lStrategy,
          lWhich, lIdx, lAcc, lLog, lResult

lookVars == <<lProv, lDefault, lCaller, lKey, lPhase, lOptions, lMode, lStrategy,
              lWhich, lIdx, lAcc, lLog, lResult>>

\* ------------------------------------------------------------------------
\* MuxLookup (provider/muxlookup.go)
\* ------------------------------------------------------------------------
VARIABLES mOpt, mPhase, mIdx, mCalls, mResult

muxVars == <<mOpt, mPhase, mIdx, mCalls, mResult>>

\* ------------------------------------------------------------------------
\* path.Resolve (internal/datadigprovider.go)
\* ------------------------------------------------------------------------
VARIABLES pLoc, pDataRoot, pScope, pPhase, pResult

pathVars == <<pLoc, pDataRoot, pScope, pPhase, pResult>>

\* ------------------------------------------------------------------------
\* The tracking scope (impl/tracking_scope.go)
\* ------------------------------------------------------------------------
VARIABLES tTracked, tRead, tLast, tOps

tsVars == <<tTracked, tRead, tLast, tOps>>

\* ------------------------------------------------------------------------
\* The function of a provider: loadFunction and the call of the function
\* (internal/datahashprovider.go, internal/datadigprovider.go, part_000)
\* ------------------------------------------------------------------------
VARIABLES fKind, fName, fSession, fPlugin, fFunc, fStarts, fpc, fLoc, fCall,
          fLoadCall, fArg

loadVars == <<fKind, fName, fSession, fPlugin, fFunc, fStarts, fpc, fLoc, fCall,
              fLoadCall, fArg>>

\* ------------------------------------------------------------------------
\* YamlLookupKey and the cache of its provider context (part_003)
\* ------------------------------------------------------------------------
VARIABLES yCache, ypc, yHit, yCalls, yLeft

yamlVars == <<yCache, ypc, yHit, yCalls, yLeft>>

\* ------------------------------------------------------------------------
\* Repeated entry.Resolve on one entry (part_000)
\* ------------------------------------------------------------------------
VARIABLES rOrig, rRecv, rOut

resVars == <<rOrig, rRecv, rOut>>

\* ------------------------------------------------------------------------
\* The scope method of interpolateString (impl/interpolate.go)
\* ------------------------------------------------------------------------
VARIABLES sScope, sStr, sFrames, sPhase, sResult

recVars == <<sScope, sStr, sFrames, sPhase, sResult>>

\* ------------------------------------------------------------------------
\* plugin.kill on one plugin (part_000)
\* ------------------------------------------------------------------------
VARIABLES kLock, kProcess, kChild, kReader, kSigint, kpc, kLeft

killVars == <<kLock, kProcess, kChild, kReader, kSigint, kpc, kLeft>>

\* the variables of the components that follow the configuration
laterVars == <<iplVars, lookVars, muxVars, pathVars, tsVars>>
lastVars == <<loadVars, yamlVars, resVars, recVars, killVars>>

vars == <<provVars, plugVars, entryVars, cfgVars, laterVars, lastVars>>

\* the variables of the other components
notProv == <<plugVars, entryVars, cfgVars, laterVars, lastVars>>
notPlug == <<provVars, entryVars, cfgVars, laterVars, lastVars>>
notEntry == <<provVars, plugVars, cfgVars, laterVars, lastVars>>
notCfg == <<provVars, plugVars, entryVars, laterVars, lastVars>>
earlierVars == <<provVars, plugVars, entryVars, cfgVars>>
notIpl == <<earlierVars, lookVars, muxVars, pathVars, tsVars, lastVars>>
notLook == <<earlierVars, iplVars, muxVars, pathVars, tsVars, lastVars>>
notMux == <<earlierVars, iplVars, lookVars, pathVars, tsVars, lastVars>>
notPath == <<earlierVars, iplVars, lookVars, muxVars, tsVars, lastVars>>
notTs == <<earlierVars, iplVars, lookVars, muxVars, pathVars, lastVars>>
notLoad == <<earlierVars, laterVars, yamlVars, resVars, recVars, killVars>>
notYaml == <<earlierVars, laterVars, loadVars, resVars, recVars, killVars>>
notRes == <<earlierVars, laterVars, loadVars, yamlVars, recVars, killVars>>
notRec == <<earlierVars, laterVars, loadVars, yamlVars, resVars, killVars>>
notKill == <<earlierVars, laterVars, loadVars, yamlVars, resVars, recVars>>

Callers == 1..NumCallers

\* a nil location and one resolved file location
NoLoc == "nil"
Locations == {NoLoc, "/data/common.yaml"}

\* the keys of the hashes map
CacheKeys == {"", "/data/common.yaml"}

\* the absent entry of the hashes map, and the nil result
NoHash == 0

\* key := ``; if location != nil { key = location.Resolved() }
CacheKey(loc) == IF loc = NoLoc THEN "" ELSE loc

\* hash, ok = dh.hashes.Get(key).(dgo.Map) under the read lock
FirstCheck(h, k) == h[k] # NoHash

DoubleCheck_Skipped(h, k) == FALSE

\* hash, ok = dh.hashes.Get(key).(dgo.Map) under the exclusive lock
DoubleCheck(h, k) == h[k] # NoHash

StoreHash_Dropped(h, k, v) == h

\* dh.hashes.Put(key, hash)
StoreHash(h, k, v) == [h EXCEPT ![k] = v]

DeferredUnlock_Skipped(l) == l

\* defer dh.hashesLock.Unlock(): runs on return and while a panic unwinds
DeferredUnlock(l) == [l EXCEPT !.writer = 0]

\* sync.RWMutex
RLockFree(l) == l.writer = 0
LockFree(l) == l.writer = 0 /\ l.readers = {}

ProvInit ==
    /\ hashes = [k \in CacheKeys |-> NoHash]
    /\ hashesLock = [readers |-> {}, writer |-> 0]
    /\ dhProviderFunc = FALSE
    /\ ddProviderFunc = FALSE
    /\ ppc = [p \in Callers |-> "idle"]
    /\ pkind = [p \in Callers |-> "hash"]
    /\ ploc = [p \in Callers |-> NoLoc]
    /\ pres = [p \in Callers |-> NoHash]
    /\ pleft = MaxLookups
    /\ hashCalls = [l \in Locations |-> 0]
    /\ hashPanics = [l \in Locations |-> 0]
    /\ digCalls = [l \in Locations |-> 0]
    /\ digLookups = [l \in Locations |-> 0]
    /\ dhLoads = 0
    /\ ddLoads = 0
    /\ nextHash = 1
    /\ doubleHits = 0

\* a caller enters DataHashProvider.LookupKey
DhLookupKey(p, loc) ==
    /\ ppc[p] = "idle" /\ pleft > 0
    /\ ppc' = [ppc EXCEPT ![p] = "dhRLock"]
    /\ pkind' = [pkind EXCEPT ![p] = "hash"]
    /\ ploc' = [ploc EXCEPT ![p] = loc]
    /\ pres' = [pres EXCEPT ![p] = NoHash]
    /\ pleft' = pleft - 1
    /\ UNCHANGED <<hashes, hashesLock, dhProviderFunc, ddProviderFunc,
                   hashCalls, hashPanics, digCalls, digLookups,
                   dhLoads, ddLoads, nextHash, doubleHits>>
    /\ UNCHANGED notProv

\* dh.hashesLock.RLock()
DhRLock(p) ==
    /\ ppc[p] = "dhRLock"
    /\ RLockFree(hashesLock)
    /\ hashesLock' = [hashesLock EXCEPT !.readers = @ \cup {p}]
    /\ ppc' = [ppc EXCEPT ![p] = "dhRGet"]
    /\ UNCHANGED <<hashes, dhProviderFunc, ddProviderFunc, pkind, ploc, pres, pleft,
                   hashCalls, hashPanics, digCalls, digLookups,
                   dhLoads, ddLoads, nextHash, doubleHits>>
    /\ UNCHANGED notProv

\* hash, ok = dh.hashes.Get(key); RUnlock(); if ok { return }
DhRGet(p) ==
    /\ ppc[p] = "dhRGet"
    /\ hashesLock' = [hashesLock EXCEPT !.readers = @ \ {p}]
    /\ IF FirstCheck(hashes, CacheKey(ploc[p]))
         THEN /\ pres' = [pres EXCEPT ![p] = hashes[CacheKey(ploc[p])]]
              /\ ppc' = [ppc EXCEPT ![p] = "done"]
         ELSE /\ pres' = pres
              /\ ppc' = [ppc EXCEPT ![p] = "dhLock"]
    /\ UNCHANGED <<hashes, dhProviderFunc, ddProviderFunc, pkind, ploc, pleft,
                   hashCalls, hashPanics, digCalls, digLookups,
                   dhLoads, ddLoads, nextHash, doubleHits>>
    /\ UNCHANGED notProv

\* dh.hashesLock.Lock(); defer dh.hashesLock.Unlock()
DhLock(p) ==
    /\ ppc[p] = "dhLock"
    /\ LockFree(hashesLock)
    /\ hashesLock' = [hashesLock EXCEPT !.writer = p]
    /\ ppc' = [ppc EXCEPT ![p] = "dhCheck"]
    /\ UNCHANGED <<hashes, dhProviderFunc, ddProviderFunc, pkind, ploc, pres, pleft,
                   hashCalls, hashPanics, digCalls, digLookups,
                   dhLoads, ddLoads, nextHash, doubleHits>>
    /\ UNCHANGED notProv

\* if hash, ok = dh.hashes.Get(key).(dgo.Map); ok { return hash }
DhCheck(p) ==
    /\ ppc[p] = "dhCheck"
    /\ IF DoubleCheck(hashes, CacheKey(ploc[p]))
         THEN /\ pres' = [pres EXCEPT ![p] = hashes[CacheKey(ploc[p])]]
              /\ ppc' = [ppc EXCEPT ![p] = "done"]
              /\ hashesLock' = DeferredUnlock(hashesLock)
              /\ doubleHits' = 1
         ELSE /\ pres' = pres
              /\ ppc' = [ppc EXCEPT ![p] = "dhCall"]
              /\ UNCHANGED <<hashesLock, doubleHits>>
    /\ UNCHANGED <<hashes, dhProviderFunc, ddProviderFunc, pkind, ploc, pleft,
                   hashCalls, hashPanics, digCalls, digLookups,
                   dhLoads, ddLoads, nextHash>>
    /\ UNCHANGED notProv

\* hash = dh.providerFunction(ic)(ic.ServerContext(dh.hierarchyEntry, opts)):
\* the function is loaded when providerFunc is nil, then invoked; it returns a
\* map or panics, and a panic runs the deferred Unlock
DhCall(p) ==
    /\ ppc[p] = "dhCall"
    /\ dhProviderFunc' = TRUE
    /\ dhLoads' = IF dhProviderFunc THEN dhLoads ELSE dhLoads + 1
    /\ hashCalls' = [hashCalls EXCEPT ![ploc[p]] = @ + 1]
    /\ \/ /\ pres' = [pres EXCEPT ![p] = nextHash]
          /\ nextHash' = nextHash + 1
          /\ ppc' = [ppc EXCEPT ![p] = "dhPut"]
          /\ UNCHANGED <<hashesLock, hashPanics>>
       \/ /\ hashPanics' = [hashPanics EXCEPT ![ploc[p]] = @ + 1]
          /\ hashesLock' = DeferredUnlock(hashesLock)
          /\ ppc' = [ppc EXCEPT ![p] = "failed"]
          /\ UNCHANGED <<pres, nextHash>>
    /\ UNCHANGED <<hashes, ddProviderFunc, pkind, ploc, pleft,
                   digCalls, digLookups, ddLoads, doubleHits>>
    /\ UNCHANGED notProv

\* dh.hashes.Put(key, hash); return (deferred Unlock)
DhPut(p) ==
    /\ ppc[p] = "dhPut"
    /\ hashes' = StoreHash(hashes, CacheKey(ploc[p]), pres[p])
    /\ hashesLock' = DeferredUnlock(hashesLock)
    /\ ppc' = [ppc EXCEPT ![p] = "done"]
    /\ UNCHANGED <<dhProviderFunc, ddProviderFunc, pkind, ploc, pres, pleft,
                   hashCalls, hashPanics, digCalls, digLookups,
                   dhLoads, ddLoads, nextHash, doubleHits>>
    /\ UNCHANGED notProv

\* a caller enters DataDigProvider.LookupKey
DdLookupKey(p, loc) ==
    /\ ppc[p] = "idle" /\ pleft > 0
    /\ ppc' = [ppc EXCEPT ![p] = "ddFunc"]
    /\ pkind' = [pkind EXCEPT ![p] = "dig"]
    /\ ploc' = [ploc EXCEPT ![p] = loc]
    /\ pres' = [pres EXCEPT ![p] = NoHash]
    /\ pleft' = pleft - 1
    /\ UNCHANGED <<hashes, hashesLock, dhProviderFunc, ddProviderFunc,
                   hashCalls, hashPanics, digCalls, digLookups,
                   dhLoads, ddLoads, nextHash, doubleHits>>
    /\ UNCHANGED notProv

\* if dh.providerFunc == nil (the read, without a lock)
DdFunc(p) ==
    /\ ppc[p] = "ddFunc"
    /\ ppc' = [ppc EXCEPT ![p] = IF ddProviderFunc THEN "ddCall" ELSE "ddLoad"]
    /\ UNCHANGED <<hashes, hashesLock, dhProviderFunc, ddProviderFunc,
                   pkind, ploc, pres, pleft,
                   hashCalls, hashPanics, digCalls, digLookups,
                   dhLoads, ddLoads, nextHash, doubleHits>>
    /\ UNCHANGED notProv

\* dh.providerFunc = dh.loadFunction(ic) (the write, without a lock)
DdLoad(p) ==
    /\ ppc[p] = "ddLoad"
    /\ ddProviderFunc' = TRUE
    /\ ddLoads' = ddLoads + 1
    /\ ppc' = [ppc EXCEPT ![p] = "ddCall"]
    /\ UNCHANGED <<hashes, hashesLock, dhProviderFunc, pkind, ploc, pres, pleft,
                   hashCalls, hashPanics, digCalls, digLookups,
                   dhLoads, nextHash, doubleHits>>
    /\ UNCHANGED notProv

\* value := dh.providerFunction(ic)(ctx, key.Parts()): a value, nil, or a panic
DdCall(p) ==
    /\ ppc[p] = "ddCall"
    /\ digCalls' = [digCalls EXCEPT ![ploc[p]] = @ + 1]
    /\ \/ /\ pres' = [pres EXCEPT ![p] = nextHash]
          /\ nextHash' = nextHash + 1
          /\ ppc' = [ppc EXCEPT ![p] = "done"]
       \/ /\ pres' = [pres EXCEPT ![p] = NoHash]
          /\ nextHash' = nextHash
          /\ ppc' = [ppc EXCEPT ![p] = "done"]
       \/ /\ pres' = pres
          /\ nextHash' = nextHash
          /\ ppc' = [ppc EXCEPT ![p] = "failed"]
    /\ UNCHANGED <<hashes, hashesLock, dhProviderFunc, ddProviderFunc,
                   pkind, ploc, pleft, hashCalls, hashPanics, digLookups,
                   dhLoads, ddLoads, doubleHits>>
    /\ UNCHANGED notProv

\* LookupKey returns to its caller (or the panic has propagated)
PReturn(p) ==
    /\ ppc[p] \in {"done", "failed"}
    /\ ppc' = [ppc EXCEPT ![p] = "idle"]
    /\ pres' = [pres EXCEPT ![p] = NoHash]
    /\ pkind' = [pkind EXCEPT ![p] = "hash"]
    /\ ploc' = [ploc EXCEPT ![p] = NoLoc]
    /\ digLookups' = IF pkind[p] = "dig"
                       THEN [digLookups EXCEPT ![ploc[p]] = @ + 1]
                       ELSE digLookups
    /\ UNCHANGED <<hashes, hashesLock, dhProviderFunc, ddProviderFunc,
                   pleft, hashCalls, hashPanics, digCalls,
                   dhLoads, ddLoads, nextHash, doubleHits>>
    /\ UNCHANGED notProv

ProvNext ==
    \E p \in Callers :
        \/ \E loc \in Locations : DhLookupKey(p, loc)
        \/ DhRLock(p)
        \/ DhRGet(p)
        \/ DhLock(p)
        \/ DhCheck(p)
        \/ DhCall(p)
        \/ DhPut(p)
        \/ \E loc \in Locations : DdLookupKey(p, loc)
        \/ DdFunc(p)
        \/ DdLoad(p)
        \/ DdCall(p)
        \/ PReturn(p)

\* ------------------------------------------------------------------------
\* Properties of the providers
\* ------------------------------------------------------------------------

\* the callers that hold the result of a finished LookupKey of kind k at loc
Finished(k, loc) == {p \in Callers : ppc[p] = "done" /\ pkind[p] = k /\ ploc[p] = loc}

\* C1: under any interleaving of DataHashProvider.LookupKey calls, a location
\* whose data function never panicked has had the function invoked at most
\* once, and exactly once as soon as a lookup of it has finished; every caller
\* that finished holds the map cached for its location; an entry of the cache,
\* once stored, is never replaced or removed.
C1_CachedExactlyOnce ==
    /\ [](\A loc \in Locations :
            /\ hashPanics[loc] = 0 => hashCalls[loc] <= 1
            /\ \A p \in Finished("hash", loc) :
                 /\ pres[p] # NoHash
                 /\ pres[p] = hashes[CacheKey(loc)]
                 /\ hashCalls[loc] >= 1)
    /\ [][\A k \in CacheKeys : hashes[k] # NoHash => hashes'[k] = hashes[k]]_vars

\* two callers raced for one location: one found the entry in the double
\* check, both finished with the same map and the function ran once
C1_Witness ==
    \E p, q \in Callers :
        /\ p # q /\ doubleHits = 1
        /\ p \in Finished("hash", ploc[p]) /\ q \in Finished("hash", ploc[p])
        /\ pres[p] = pres[q] /\ pres[p] # NoHash
        /\ hashCalls[ploc[p]] = 1 /\ hashPanics[ploc[p]] = 0

\* C2 as stated: for data_hash and data_dig alike the data function is
\* invoked at most once per (provider, location).
C2_AtMostOncePerProvider ==
    \A loc \in Locations : hashCalls[loc] <= 1 /\ digCalls[loc] <= 1

\* C2: the data function of a data_hash provider returns a map at most
\* once per location (an invocation that panics stores nothing and may be
\* followed by another); a data_dig provider caches nothing, its function has
\* been invoked once for every LookupKey call that got as far as the call.
C2_HashOnceDigEveryCall ==
    \A loc \in Locations :
        /\ hashCalls[loc] - hashPanics[loc] <= 1
        /\ digCalls[loc] = digLookups[loc]
             + Cardinality({p \in Callers : /\ ppc[p] \in {"done", "failed"}
                                            /\ pkind[p] = "dig" /\ ploc[p] = loc})

\* one location whose map a data_hash lookup has cached with one invocation,
\* and which two data_dig lookups have been served by two invocations
C2_Witness ==
    \E loc \in Locations :
        /\ hashCalls[loc] = 1 /\ hashPanics[loc] = 0
        /\ hashes[CacheKey(loc)] # NoHash
        /\ digCalls[loc] = 2 /\ digLookups[loc] = 2

\* C26: when the data function panics while the entry of a location is
\* computed, the step of the panic releases the exclusive lock and leaves the
\* cache as it was; a caller that is not inside dataHash never holds the lock;
\* an entry of the cache comes from an invocation that returned, so a location
\* whose invocations all panicked has no entry and its next lookup reaches the
\* function again
C26_PanicLeavesCache ==
    /\ [](\A p \in Callers :
            ppc[p] \in {"idle", "done", "failed"}
              => (hashesLock.writer # p /\ p \notin hashesLock.readers))
    /\ [](\A loc \in Locations :
            /\ hashes[CacheKey(loc)] # NoHash => hashCalls[loc] > hashPanics[loc]
            /\ hashCalls[loc] = hashPanics[loc] => hashes[CacheKey(loc)] = NoHash)
    /\ [][\A p \in Callers :
            (ppc[p] = "dhCall" /\ ppc'[p] = "failed")
              => (/\ hashes' = hashes
                  /\ hashesLock'.writer = 0
                  /\ hashPanics'[ploc[p]] = hashPanics[ploc[p]] + 1)]_vars

\* the function panicked for a location, a later lookup of the location
\* invoked it again and its map is cached
C26_Witness ==
    \E loc \in Locations :
        /\ hashPanics[loc] = 1
        /\ hashCalls[loc] = 2
        /\ hashes[CacheKey(loc)] # NoHash
        /\ hashesLock.writer = 0

\* C27: the function of a provider is loaded at most once, under any
\* interleaving of LookupKey calls
C27_LoadedOnce == dhLoads <= 1 /\ ddLoads <= 1

\* ------------------------------------------------------------------------
\* Plugin registry: startPlugin, stopAll, kill, callPlugin
\* ------------------------------------------------------------------------
Threads == 1..NumThreads
Pids == 1..MaxSpawns
Paths == {"/plugins/a", "/plugins/b"}

\* no process / no thread / no registry entry
NoPid == 0

\* hiera.ProtoVersion
ProtoVersion == 1

\* the JSON number of the version field, in tenths (1.5 is 15); num is FALSE
\* when the field is missing or not a number
Versions == {[num |-> FALSE, tenths |-> 0], [num |-> TRUE, tenths |-> 10],
             [num |-> TRUE, tenths |-> 15], [num |-> TRUE, tenths |-> 20]}

\* what the child wrote on stdout, as the handshake goroutine decodes it:
\* addr "absent" is a missing or non-string address, funcs "absent" a missing
\* or non-map functions field, funcs "malformed" a map whose values are not
\* arrays of strings
AllMetas == [kind : {"meta"}, version : Versions,
             addr : {"absent", "127.0.0.1:8080"},
             funcs : {"absent", "ok", "malformed"}]
GoodMeta == [kind |-> "meta", version |-> [num |-> TRUE, tenths |-> 10],
             addr |-> "127.0.0.1:8080", funcs |-> "ok"]

\* the handshakes tried: the good one and those that differ from it in one field
Metas == {m \in AllMetas :
            Cardinality({f \in {"version", "addr", "funcs"} : m[f] # GoodMeta[f]}) <= 1}
NoMeta == [kind |-> "none", version |-> [num |-> FALSE, tenths |-> 0],
           addr |-> "absent", funcs |-> "absent"]
TimeoutMeta == [NoMeta EXCEPT !.kind = "timeout"]
ErrorMeta == [NoMeta EXCEPT !.kind = "error"]

\* int(v) of a non-negative float64
IntOf(tenths) == tenths \div 10

VersionOk_Exact(v) == v.num /\ v.tenths = ProtoVersion * 10

\* v, ok := meta[`version`].(float64); ok && int(v) == hiera.ProtoVersion
VersionOk(v) == v.num /\ IntOf(v.tenths) = ProtoVersion

\* plugin.initialize: "ok" or the panic it raises, checked in source order
Initialize(m) ==
    IF ~VersionOk(m.version) THEN "unsupported protocol"
    ELSE IF m.addr = "absent" THEN "no valid address"
    ELSE IF m.funcs = "absent" THEN "no valid functions map"
    ELSE "ok"

\* p.addr as plugin.initialize leaves it (assigned before the address check)
AddrAfterInitialize(m) ==
    IF VersionOk(m.version) /\ m.addr # "absent" THEN m.addr ELSE ""

\* p.functions as plugin.initialize leaves it
FuncsAfterInitialize(m) ==
    IF Initialize(m) = "ok" THEN m.funcs ELSE "nil"

\* plugin.functionMap: names := v.([]interface{}) panics on a malformed map
FunctionMapOk(funcs) == funcs = "ok"

\* the HTTP exchange of one call: no response within the timeout (or no
\* connection), or a status with a body that can or cannot be read in full
Responses == {[status |-> 0, readable |-> FALSE]}
             \cup [status : {200, 404, 500}, readable : BOOLEAN]
NoResponse == [status |-> 0, readable |-> FALSE]

NoResult == [kind |-> "none", status |-> FALSE, body |-> FALSE]

CallOutcome_NotFoundIsError(r) ==
    IF r.status = 0 THEN [kind |-> "error", status |-> FALSE, body |-> FALSE]
    ELSE IF r.status = 200 /\ r.readable
      THEN [kind |-> "value", status |-> FALSE, body |-> TRUE]
    ELSE IF r.status = 200
      THEN [kind |-> "error", status |-> FALSE, body |-> FALSE]
    ELSE [kind |-> "error", status |-> TRUE, body |-> r.readable]

\* plugin.callPlugin: the value, the nil of not-found, or the error raised;
\* status and body say whether the error message holds the status line and
\* the response body
CallOutcome(r) ==
    IF r.status = 0 THEN [kind |-> "error", status |-> FALSE, body |-> FALSE]
    ELSE IF r.status = 200 /\ r.readable
      THEN [kind |-> "value", status |-> FALSE, body |-> TRUE]
    ELSE IF r.status = 200
      THEN [kind |-> "error", status |-> FALSE, body |-> FALSE]
    ELSE IF r.status = 404
      THEN [kind |-> "nil", status |-> FALSE, body |-> FALSE]
    ELSE [kind |-> "error", status |-> TRUE, body |-> r.readable]

\* var allPlugins = &pluginRegistry{}
PlugInit ==
    /\ plugins = [pa \in Paths |-> NoPid]
    /\ pluginsNil = TRUE
    /\ regLock = NoPid
    /\ childState = [c \in Pids |-> "none"]
    /\ childPath = [c \in Pids |-> "/plugins/a"]
    /\ childSig = [c \in Pids |-> "none"]
    /\ childKill = [c \in Pids |-> FALSE]
    /\ plProcess = [c \in Pids |-> FALSE]
    /\ plAddr = [c \in Pids |-> ""]
    /\ plFuncs = [c \in Pids |-> "nil"]
    /\ plLock = [c \in Pids |-> NoPid]
    /\ metaCh = [c \in Pids |-> "none"]
    /\ nextPid = 1
    /\ spawned = [pa \in Paths |-> 0]
    /\ tpc = [t \in Threads |-> "idle"]
    /\ tpath = [t \in Threads |-> "/plugins/a"]
    /\ tpid = [t \in Threads |-> NoPid]
    /\ thsk = [t \in Threads |-> NoMeta]
    /\ tresp = [t \in Threads |-> NoResponse]
    /\ tres = [t \in Threads |-> NoResult]
    /\ tstopped = [t \in Threads |-> {}]
    /\ opsLeft = MaxOps
    /\ failedCalls = {}
    /\ recovered = FALSE

\* the plugins whose function map a caller holds: the ones registered, and
\* the ones a provider still holds closures of after stopAll
Started == {c \in Pids : plFuncs[c] = "ok"}

\* the plugins of the registry map
InRegistry == {c \in Pids : ~pluginsNil /\ \E pa \in Paths : plugins[pa] = c}

\* threads that are in startPlugin and have not spawned yet
Starting == {t \in Threads : tpc[t] \in {"spLock", "spCheck", "spSpawn"}}

\* cmdLookup: TryWithParent runs the function with the deferred KillPlugins
CmdLookup(t) ==
    /\ tpc[t] = "idle" /\ opsLeft > 0
    /\ tpc' = [tpc EXCEPT ![t] = "lookup"]
    /\ UNCHANGED <<plugins, pluginsNil, regLock, childState, childPath, childSig,
                   childKill, plProcess, plAddr, plFuncs, plLock, metaCh, nextPid,
                   spawned, tpath, tpid, thsk, tresp, tres, tstopped, opsLeft,
                   failedCalls, recovered>>
    /\ UNCHANGED notPlug

\* the lookup loads a function through the plugin loader: startPlugin(path)
StartPlugin(t, pa) ==
    /\ tpc[t] = "lookup" /\ opsLeft > 0
    /\ nextPid + Cardinality(Starting) <= MaxSpawns
    /\ tpc' = [tpc EXCEPT ![t] = "spLock"]
    /\ tpath' = [tpath EXCEPT ![t] = pa]
    /\ opsLeft' = opsLeft - 1
    /\ UNCHANGED <<plugins, pluginsNil, regLock, childState, childPath, childSig,
                   childKill, plProcess, plAddr, plFuncs, plLock, metaCh, nextPid,
                   spawned, tpid, thsk, tresp, tres, tstopped, failedCalls, recovered>>
    /\ UNCHANGED notPlug

\* r.lock.Lock(); defer r.lock.Unlock()
SpLock(t) ==
    /\ tpc[t] = "spLock"
    /\ regLock = NoPid
    /\ regLock' = t
    /\ tpc' = [tpc EXCEPT ![t] = "spCheck"]
    /\ UNCHANGED <<plugins, pluginsNil, childState, childPath, childSig,
                   childKill, plProcess, plAddr, plFuncs, plLock, metaCh, nextPid,
                   spawned, tpath, tpid, thsk, tresp, tres, tstopped, opsLeft,
                   failedCalls, recovered>>
    /\ UNCHANGED notPlug

Registered_Never(m, isNil, pa) == FALSE

\* if r.plugins != nil { p, ok = r.plugins[path] }
Registered(m, isNil, pa) == ~isNil /\ m[pa] # NoPid

\* if ok { return p.functionMap() }; functionMap panics on a malformed map
SpCheck(t) ==
    /\ tpc[t] = "spCheck"
    /\ IF Registered(plugins, pluginsNil, tpath[t])
         THEN /\ tpid' = [tpid EXCEPT ![t] = plugins[tpath[t]]]
              /\ tpc' = [tpc EXCEPT ![t] =
                   IF FunctionMapOk(plFuncs[plugins[tpath[t]]]) THEN "spRet" ELSE "spFail"]
         ELSE /\ tpid' = [tpid EXCEPT ![t] = NoPid]
              /\ tpc' = [tpc EXCEPT ![t] = "spSpawn"]
    /\ UNCHANGED <<plugins, pluginsNil, regLock, childState, childPath, childSig,
                   childKill, plProcess, plAddr, plFuncs, plLock, metaCh, nextPid,
                   spawned, tpath, thsk, tresp, tres, tstopped, opsLeft,
                   failedCalls, recovered>>
    /\ UNCHANGED notPlug

\* cmd.Start(): the child runs, or the start fails and startPlugin panics;
\* p = &plugin{path: path, process: cmd.Process}; the goroutine that decodes
\* the handshake is started
SpSpawn(t) ==
    /\ tpc[t] = "spSpawn"
    /\ \/ /\ nextPid <= MaxSpawns
          /\ childState' = [childState EXCEPT ![nextPid] = "running"]
          /\ childPath' = [childPath EXCEPT ![nextPid] = tpath[t]]
          /\ plProcess' = [plProcess EXCEPT ![nextPid] = TRUE]
          /\ metaCh' = [metaCh EXCEPT ![nextPid] = "decoding"]
          /\ spawned' = [spawned EXCEPT ![tpath[t]] = @ + 1]
          /\ tpid' = [tpid EXCEPT ![t] = nextPid]
          /\ nextPid' = nextPid + 1
          /\ tpc' = [tpc EXCEPT ![t] = "spAwait"]
       \/ /\ tpc' = [tpc EXCEPT ![t] = "spFail"]
          /\ UNCHANGED <<childState, childPath, plProcess, metaCh, spawned,
                         tpid, nextPid>>
    /\ UNCHANGED <<plugins, pluginsNil, regLock, childSig, childKill,
                   plAddr, plFuncs, plLock, tpath, thsk, tresp, tres, tstopped,
                   opsLeft, failedCalls, recovered>>
    /\ UNCHANGED notPlug

\* cmd.Process.Kill() of the deferred function
Killed(st) == IF st = "running" THEN "killed" ELSE st

\* case <-timeout: panic; the deferred function kills the child and the
\* goroutine is left to send on a channel nobody receives from
SpTimeout(t) ==
    /\ tpc[t] = "spAwait"
    /\ thsk' = [thsk EXCEPT ![t] = TimeoutMeta]
    /\ childState' = [childState EXCEPT ![tpid[t]] = Killed(@)]
    /\ childKill' = [childKill EXCEPT ![tpid[t]] = TRUE]
    /\ tpc' = [tpc EXCEPT ![t] = "spFail"]
    /\ UNCHANGED <<plugins, pluginsNil, regLock, childPath, childSig,
                   plProcess, plAddr, plFuncs, plLock, metaCh, nextPid,
                   spawned, tpath, tpid, tresp, tres, tstopped, opsLeft,
                   failedCalls, recovered>>
    /\ UNCHANGED notPlug

\* dc.Decode(&meta) returned in a goroutine whose receiver has given up: the
\* send metaCh <- ... blocks
MetaSendBlocked(c) ==
    /\ metaCh[c] = "decoding"
    /\ \A t \in Threads : ~(tpc[t] = "spAwait" /\ tpid[t] = c)
    /\ metaCh' = [metaCh EXCEPT ![c] = "blocked"]
    /\ UNCHANGED <<plugins, pluginsNil, regLock, childState, childPath, childSig,
                   childKill, plProcess, plAddr, plFuncs, plLock, nextPid,
                   spawned, tpc, tpath, tpid, thsk, tresp, tres, tstopped, opsLeft,
                   failedCalls, recovered>>
    /\ UNCHANGED notPlug

\* case mv := <-metaCh with an error: panic, the deferred function kills
SpMetaError(t) ==
    /\ tpc[t] = "spAwait"
    /\ metaCh' = [metaCh EXCEPT ![tpid[t]] = "done"]
    /\ thsk' = [thsk EXCEPT ![t] = ErrorMeta]
    /\ childState' = [childState EXCEPT ![tpid[t]] = Killed(@)]
    /\ childKill' = [childKill EXCEPT ![tpid[t]] = TRUE]
    /\ tpc' = [tpc EXCEPT ![t] = "spFail"]
    /\ UNCHANGED <<plugins, pluginsNil, regLock, childPath, childSig,
                   plProcess, plAddr, plFuncs, plLock, nextPid,
                   spawned, tpath, tpid, tresp, tres, tstopped, opsLeft,
                   failedCalls, recovered>>
    /\ UNCHANGED notPlug

\* case mv := <-metaCh with the meta map: r.plugins is made when nil,
\* p.initialize(meta), r.plugins[path] = p, return p.functionMap(); a panic of
\* initialize or functionMap makes the deferred function kill the child
SpMeta(t, m) ==
    /\ tpc[t] = "spAwait"
    /\ metaCh' = [metaCh EXCEPT ![tpid[t]] = "done"]
    /\ thsk' = [thsk EXCEPT ![t] = m]
    /\ pluginsNil' = FALSE
    /\ plAddr' = [plAddr EXCEPT ![tpid[t]] = AddrAfterInitialize(m)]
    /\ plFuncs' = [plFuncs EXCEPT ![tpid[t]] = FuncsAfterInitialize(m)]
    /\ IF Initialize(m) = "ok"
         THEN plugins' = [plugins EXCEPT ![tpath[t]] = tpid[t]]
         ELSE plugins' = plugins
    /\ IF Initialize(m) = "ok" /\ FunctionMapOk(m.funcs)
         THEN /\ tpc' = [tpc EXCEPT ![t] = "spRet"]
              /\ UNCHANGED <<childState, childKill>>
         ELSE /\ tpc' = [tpc EXCEPT ![t] = "spFail"]
              /\ childState' = [childState EXCEPT ![tpid[t]] = Killed(@)]
              /\ childKill' = [childKill EXCEPT ![tpid[t]] = TRUE]
    /\ UNCHANGED <<regLock, childPath, childSig, plProcess, plLock, nextPid,
                   spawned, tpath, tpid, tresp, tres, tstopped, opsLeft,
                   failedCalls, recovered>>
    /\ UNCHANGED notPlug

\* startPlugin returns the function map (the deferred Unlock runs)
SpReturn(t) ==
    /\ tpc[t] = "spRet"
    /\ regLock' = NoPid
    /\ thsk' = [thsk EXCEPT ![t] = NoMeta]
    /\ tpid' = [tpid EXCEPT ![t] = NoPid]
    /\ tpath' = [tpath EXCEPT ![t] = "/plugins/a"]
    /\ tpc' = [tpc EXCEPT ![t] = "lookup"]
    /\ UNCHANGED <<plugins, pluginsNil, childState, childPath, childSig,
                   childKill, plProcess, plAddr, plFuncs, plLock, metaCh, nextPid,
                   spawned, tresp, tres, tstopped, opsLeft, failedCalls, recovered>>
    /\ UNCHANGED notPlug

\* startPlugin panics (the deferred Unlock runs), the lookup fails; a plugin
\* object that was not registered is unreachable from here on, its fields are
\* cleared
SpPanic(t) ==
    /\ tpc[t] = "spFail"
    /\ regLock' = NoPid
    /\ thsk' = [thsk EXCEPT ![t] = NoMeta]
    /\ tpid' = [tpid EXCEPT ![t] = NoPid]
    /\ tpath' = [tpath EXCEPT ![t] = "/plugins/a"]
    /\ tpc' = [tpc EXCEPT ![t] = "panic"]
    /\ IF tpid[t] # NoPid /\ tpid[t] \notin InRegistry
         THEN /\ plProcess' = [plProcess EXCEPT ![tpid[t]] = FALSE]
              /\ plAddr' = [plAddr EXCEPT ![tpid[t]] = ""]
              /\ plFuncs' = [plFuncs EXCEPT ![tpid[t]] = "nil"]
              /\ childKill' = [childKill EXCEPT ![tpid[t]] = FALSE]
         ELSE UNCHANGED <<plProcess, plAddr, plFuncs, childKill>>
    /\ UNCHANGED <<plugins, pluginsNil, childState, childPath, childSig,
                   plLock, metaCh, nextPid,
                   spawned, tresp, tres, tstopped, opsLeft, failedCalls, recovered>>
    /\ UNCHANGED notPlug

\* LookupAndRender returns: the deferred KillPlugins runs
LookupReturns(t) ==
    /\ tpc[t] = "lookup"
    /\ tpc' = [tpc EXCEPT ![t] = "saLock"]
    /\ UNCHANGED <<plugins, pluginsNil, regLock, childState, childPath, childSig,
                   childKill, plProcess, plAddr, plFuncs, plLock, metaCh, nextPid,
                   spawned, tpath, tpid, thsk, tresp, tres, tstopped, opsLeft,
                   failedCalls, recovered>>
    /\ UNCHANGED notPlug

PanicUnwinds_NoKill(t) ==
    /\ tpc[t] = "panic"
    /\ tpc' = [tpc EXCEPT ![t] = "idle"]
    /\ UNCHANGED <<plugins, pluginsNil, regLock, childState, childPath, childSig,
                   childKill, plProcess, plAddr, plFuncs, plLock, metaCh, nextPid,
                   spawned, tpath, tpid, thsk, tresp, tres, tstopped, opsLeft,
                   failedCalls, recovered>>
    /\ UNCHANGED notPlug

\* LookupAndRender panics: the deferred KillPlugins runs while unwinding
PanicUnwinds(t) ==
    /\ tpc[t] = "panic"
    /\ tpc' = [tpc EXCEPT ![t] = "saLock"]
    /\ UNCHANGED <<plugins, pluginsNil, regLock, childState, childPath, childSig,
                   childKill, plProcess, plAddr, plFuncs, plLock, metaCh, nextPid,
                   spawned, tpath, tpid, thsk, tresp, tres, tstopped, opsLeft,
                   failedCalls, recovered>>
    /\ UNCHANGED notPlug

\* stopAll: r.lock.Lock(); defer r.lock.Unlock()
SaLock(t) ==
    /\ tpc[t] = "saLock"
    /\ regLock = NoPid
    /\ regLock' = t
    /\ tstopped' = [tstopped EXCEPT ![t] = {}]
    /\ tpc' = [tpc EXCEPT ![t] = "saLoop"]
    /\ UNCHANGED <<plugins, pluginsNil, childState, childPath, childSig,
                   childKill, plProcess, plAddr, plFuncs, plLock, metaCh, nextPid,
                   spawned, tpath, tpid, thsk, tresp, tres, opsLeft, failedCalls, recovered>>
    /\ UNCHANGED notPlug

\* for _, p := range r.plugins { p.kill() }: the next plugin, in any order
SaKill(t, c) ==
    /\ tpc[t] = "saLoop"
    /\ c \in InRegistry \ tstopped[t]
    /\ tpid' = [tpid EXCEPT ![t] = c]
    /\ tpc' = [tpc EXCEPT ![t] = "kLock"]
    /\ UNCHANGED <<plugins, pluginsNil, regLock, childState, childPath, childSig,
                   childKill, plProcess, plAddr, plFuncs, plLock, metaCh, nextPid,
                   spawned, tpath, thsk, tresp, tres, tstopped, opsLeft,
                   failedCalls, recovered>>
    /\ UNCHANGED notPlug

\* r.plugins = nil, after the loop (the counts of children spawned and of
\* calls failed since the last stopAll start again)
SaClear(t) ==
    /\ tpc[t] = "saLoop"
    /\ InRegistry \ tstopped[t] = {}
    /\ plugins' = [pa \in Paths |-> NoPid]
    /\ pluginsNil' = TRUE
    /\ spawned' = [pa \in Paths |-> 0]
    /\ failedCalls' = {}
    /\ tpid' = [tpid EXCEPT ![t] = NoPid]
    /\ tpc' = [tpc EXCEPT ![t] = "saDone"]
    /\ UNCHANGED <<regLock, childState, childPath, childSig,
                   childKill, plProcess, plAddr, plFuncs, plLock, metaCh, nextPid,
                   tpath, thsk, tresp, tres, tstopped, opsLeft, recovered>>
    /\ UNCHANGED notPlug

\* stopAll returns (the deferred Unlock runs) and so does cmdLookup; the record
\* of how each plugin was stopped is dropped
SaReturn(t) ==
    /\ tpc[t] = "saDone"
    /\ regLock' = NoPid
    /\ tstopped' = [tstopped EXCEPT ![t] = {}]
    /\ childSig' = [c \in Pids |-> IF c \in tstopped[t] THEN "none" ELSE childSig[c]]
    /\ childKill' = [c \in Pids |-> IF c \in tstopped[t] THEN FALSE ELSE childKill[c]]
    /\ tpc' = [tpc EXCEPT ![t] = "idle"]
    /\ UNCHANGED <<plugins, pluginsNil, childState, childPath,
                   plProcess, plAddr, plFuncs, plLock, metaCh, nextPid,
                   spawned, tpath, tpid, thsk, tresp, tres, opsLeft, failedCalls, recovered>>
    /\ UNCHANGED notPlug

\* kill: p.lock.Lock(); process := p.process; if process == nil { return }
\* (that return leaves p.lock locked)
KLock(t) ==
    /\ tpc[t] = "kLock"
    /\ plLock[tpid[t]] = NoPid
    /\ plLock' = [plLock EXCEPT ![tpid[t]] = t]
    /\ IF plProcess[tpid[t]]
         THEN /\ tpc' = [tpc EXCEPT ![t] = "kSignal"]
              /\ tstopped' = tstopped
         ELSE /\ tpc' = [tpc EXCEPT ![t] = "saLoop"]
              /\ tstopped' = [tstopped EXCEPT ![t] = @ \cup {tpid[t]}]
    /\ UNCHANGED <<plugins, pluginsNil, regLock, childState, childPath, childSig,
                   childKill, plProcess, plAddr, plFuncs, metaCh, nextPid,
                   spawned, tpath, tpid, thsk, tresp, tres, opsLeft, failedCalls, recovered>>
    /\ UNCHANGED notPlug

\* process.Signal(syscall.SIGINT): delivered to a running child; it fails when
\* the child has finished, and on a platform without SIGINT, and then the
\* child is killed at once
KSignal(t) ==
    /\ tpc[t] = "kSignal"
    /\ \/ /\ childState[tpid[t]] = "running"
          /\ childSig' = [childSig EXCEPT ![tpid[t]] = "sent"]
          /\ tpc' = [tpc EXCEPT ![t] = "kWait"]
          /\ UNCHANGED <<childState, childKill>>
       \/ /\ childSig' = [childSig EXCEPT ![tpid[t]] = "failed"]
          /\ childState' = [childState EXCEPT ![tpid[t]] = Killed(@)]
          /\ childKill' = [childKill EXCEPT ![tpid[t]] = TRUE]
          /\ tpc' = [tpc EXCEPT ![t] = "kDefer"]
    /\ UNCHANGED <<plugins, pluginsNil, regLock, childPath,
                   plProcess, plAddr, plFuncs, plLock, metaCh, nextPid,
                   spawned, tpath, tpid, thsk, tresp, tres, tstopped, opsLeft,
                   failedCalls, recovered>>
    /\ UNCHANGED notPlug

\* case <-time.After(time.Second * 3): _ = process.Kill()
KWaitTimeout(st) == Killed(st)

\* select: the child has exited (done), or three seconds have passed
KWait(t) ==
    /\ tpc[t] = "kWait"
    /\ \/ /\ childState[tpid[t]] # "running"
          /\ UNCHANGED <<childState, childKill>>
       \/ /\ childState' = [childState EXCEPT ![tpid[t]] = KWaitTimeout(@)]
          /\ childKill' = [childKill EXCEPT ![tpid[t]] = TRUE]
    /\ tpc' = [tpc EXCEPT ![t] = "kDefer"]
    /\ UNCHANGED <<plugins, pluginsNil, regLock, childPath, childSig,
                   plProcess, plAddr, plFuncs, plLock, metaCh, nextPid,
                   spawned, tpath, tpid, thsk, tresp, tres, tstopped, opsLeft,
                   failedCalls, recovered>>
    /\ UNCHANGED notPlug

\* the deferred function of kill: p.wGroup.Wait() (the readers of the child's
\* pipes end when the child is gone); p.process = nil; p.lock.Unlock()
KDefer(t) ==
    /\ tpc[t] = "kDefer"
    /\ childState[tpid[t]] # "running"
    /\ metaCh[tpid[t]] = "done"
    /\ plProcess' = [plProcess EXCEPT ![tpid[t]] = FALSE]
    /\ plLock' = [plLock EXCEPT ![tpid[t]] = NoPid]
    /\ tstopped' = [tstopped EXCEPT ![t] = @ \cup {tpid[t]}]
    /\ tpc' = [tpc EXCEPT ![t] = "saLoop"]
    /\ UNCHANGED <<plugins, pluginsNil, regLock, childState, childPath, childSig,
                   childKill, plAddr, plFuncs, metaCh, nextPid,
                   spawned, tpath, tpid, thsk, tresp, tres, opsLeft, failedCalls, recovered>>
    /\ UNCHANGED notPlug

\* the child process ends by itself (after a SIGINT or at any other time)
ChildExit(c) ==
    /\ childState[c] = "running"
    /\ childState' = [childState EXCEPT ![c] = "exited"]
    /\ UNCHANGED <<plugins, pluginsNil, regLock, childPath, childSig,
                   childKill, plProcess, plAddr, plFuncs, plLock, metaCh, nextPid,
                   spawned, tpc, tpath, tpid, thsk, tresp, tres, tstopped, opsLeft,
                   failedCalls, recovered>>
    /\ UNCHANGED notPlug

\* a dispatch closure of plugin c is called: callPlugin builds the URL from
\* p.addr and sends the GET
CallPlugin(t, c) ==
    /\ tpc[t] = "lookup" /\ opsLeft > 0
    /\ c \in Started
    /\ tpid' = [tpid EXCEPT ![t] = c]
    /\ opsLeft' = opsLeft - 1
    /\ tpc' = [tpc EXCEPT ![t] = "cpGet"]
    /\ UNCHANGED <<plugins, pluginsNil, regLock, childState, childPath, childSig,
                   childKill, plProcess, plAddr, plFuncs, plLock, metaCh, nextPid,
                   spawned, tpath, thsk, tresp, tres, tstopped, failedCalls, recovered>>
    /\ UNCHANGED notPlug

\* resp, err := client.Get(us) and the switch on resp.StatusCode; only a
\* running child answers
CpRespond(t, r) ==
    /\ tpc[t] = "cpGet"
    /\ r.status # 0 => childState[tpid[t]] = "running"
    /\ tresp' = [tresp EXCEPT ![t] = r]
    /\ tres' = [tres EXCEPT ![t] = CallOutcome(r)]
    /\ tpc' = [tpc EXCEPT ![t] =
         IF CallOutcome(r).kind = "error" THEN "cpFail" ELSE "cpRet"]
    /\ failedCalls' = IF CallOutcome(r).kind = "error"
                        THEN failedCalls \cup {tpid[t]} ELSE failedCalls
    /\ recovered' = (recovered \/ (CallOutcome(r).kind = "value" /\ failedCalls # {}))
    /\ UNCHANGED <<plugins, pluginsNil, regLock, childState, childPath, childSig,
                   childKill, plProcess, plAddr, plFuncs, plLock, metaCh, nextPid,
                   spawned, tpath, tpid, thsk, tstopped, opsLeft>>
    /\ UNCHANGED notPlug

\* callPlugin returns the value or nil
CpReturn(t) ==
    /\ tpc[t] = "cpRet"
    /\ tresp' = [tresp EXCEPT ![t] = NoResponse]
    /\ tres' = [tres EXCEPT ![t] = NoResult]
    /\ tpid' = [tpid EXCEPT ![t] = NoPid]
    /\ tpc' = [tpc EXCEPT ![t] = "lookup"]
    /\ UNCHANGED <<plugins, pluginsNil, regLock, childState, childPath, childSig,
                   childKill, plProcess, plAddr, plFuncs, plLock, metaCh, nextPid,
                   spawned, tpath, thsk, tstopped, opsLeft, failedCalls, recovered>>
    /\ UNCHANGED notPlug

CpPanic_Unregisters(t) ==
    /\ tpc[t] = "cpFail"
    /\ plugins' = [pa \in Paths |-> IF plugins[pa] = tpid[t] THEN NoPid ELSE plugins[pa]]
    /\ tresp' = [tresp EXCEPT ![t] = NoResponse]
    /\ tres' = [tres EXCEPT ![t] = NoResult]
    /\ tpid' = [tpid EXCEPT ![t] = NoPid]
    /\ tpc' = [tpc EXCEPT ![t] = "panic"]
    /\ UNCHANGED <<pluginsNil, regLock, childState, childPath, childSig,
                   childKill, plProcess, plAddr, plFuncs, plLock, metaCh, nextPid,
                   spawned, tpath, thsk, tstopped, opsLeft, failedCalls, recovered>>
    /\ UNCHANGED notPlug

\* callPlugin panics with the error: the lookup fails
CpPanic(t) ==
    /\ tpc[t] = "cpFail"
    /\ tresp' = [tresp EXCEPT ![t] = NoResponse]
    /\ tres' = [tres EXCEPT ![t] = NoResult]
    /\ tpid' = [tpid EXCEPT ![t] = NoPid]
    /\ tpc' = [tpc EXCEPT ![t] = "panic"]
    /\ UNCHANGED <<plugins, pluginsNil, regLock, childState, childPath, childSig,
                   childKill, plProcess, plAddr, plFuncs, plLock, metaCh, nextPid,
                   spawned, tpath, thsk, tstopped, opsLeft, failedCalls, recovered>>
    /\ UNCHANGED notPlug

PlugNext ==
    \/ \E t \in Threads :
        \/ CmdLookup(t)
        \/ \E pa \in Paths : StartPlugin(t, pa)
        \/ SpLock(t)
        \/ SpCheck(t)
        \/ SpSpawn(t)
        \/ SpTimeout(t)
        \/ SpMetaError(t)
        \/ \E m \in Metas : SpMeta(t, m)
        \/ SpReturn(t)
        \/ SpPanic(t)
        \/ LookupReturns(t)
        \/ PanicUnwinds(t)
        \/ SaLock(t)
        \/ \E c \in Pids : SaKill(t, c)
        \/ SaClear(t)
        \/ SaReturn(t)
        \/ KLock(t)
        \/ KSignal(t)
        \/ KWait(t)
        \/ KDefer(t)
        \/ \E c \in Pids : CallPlugin(t, c)
        \/ \E r \in Responses : CpRespond(t, r)
        \/ CpReturn(t)
        \/ CpPanic(t)
    \/ \E c \in Pids : ChildExit(c)
    \/ \E c \in Pids : MetaSendBlocked(c)

\* ------------------------------------------------------------------------
\* Properties of the plugin registry
\* ------------------------------------------------------------------------

\* C29: the goroutine that startPlugin starts to decode the handshake is
\* never left blocked in its send to the handshake channel
C29_HandshakeGoroutineEnds ==
    \A c \in Pids : metaCh[c] # "blocked"

InvalidHandshake(h) ==
    \/ h.kind \in {"timeout", "error"}
    \/ ~VersionOk_Exact(h.version)
    \/ h.addr = "absent"
    \/ h.funcs = "absent"

\* C4: a startPlugin whose child delivered no valid handshake (timeout,
\* undecodable JSON, a version other than the protocol version, no string
\* address, no functions map) fails, its child does not run any more and its
\* path is not registered.
C4_InvalidHandshakeFails ==
    \A t \in Threads :
        (tpc[t] \in {"spRet", "spFail"} /\ thsk[t].kind # "none"
           /\ InvalidHandshake(thsk[t]))
        => /\ tpc[t] = "spFail"
           /\ childState[tpid[t]] # "running"
           /\ tpid[t] \notin InRegistry

\* C5: when stopAll is about to return the registry is empty, every plugin it
\* found registered has been sent SIGINT (or the signal failed) and has exited
\* or been killed, and no child at all is left running; it stops every plugin
\* of the registry before it clears it; and a thread leaves cmdLookup only
\* through stopAll, after a normal return and after a panic alike.
C5_StopAllOnEveryExit ==
    /\ [](\A t \in Threads : tpc[t] = "saDone" =>
            /\ pluginsNil /\ \A pa \in Paths : plugins[pa] = NoPid
            /\ \A c \in tstopped[t] :
                 /\ childSig[c] # "none"
                 /\ childSig[c] = "failed" => childKill[c]
                 /\ childState[c] = "exited" \/ (childKill[c] /\ childState[c] = "killed")
            /\ \A c \in Pids : childState[c] # "running")
    /\ [][\A t \in Threads :
            /\ (tpc[t] = "saLoop" /\ tpc'[t] = "saDone") => InRegistry \subseteq tstopped[t]
            /\ (tpc[t] # "idle" /\ tpc'[t] = "idle") => tpc[t] = "saDone"]_vars

\* stopAll has stopped a plugin that ignored the SIGINT and was killed
C5_Witness ==
    \E t \in Threads : \E c \in tstopped[t] :
        /\ tpc[t] = "saDone"
        /\ childSig[c] = "sent" /\ childKill[c] /\ childState[c] = "killed"

C7_FailedCallKeepsPlugins ==
    [][\A t \in Threads :
         (\/ tpc[t] = "cpGet" /\ tpc'[t] = "cpFail"
          \/ tpc[t] = "cpFail" /\ tpc'[t] = "panic")
         => UNCHANGED <<plugins, pluginsNil, regLock, childState, plProcess,
                        plAddr, plFuncs>>]_vars

\* a call has succeeded after a call had failed, and the plugin of the failed
\* call is still registered and running
C7_Witness ==
    /\ recovered
    /\ \E c \in failedCalls : c \in InRegistry /\ childState[c] = "running"
                               /\ plProcess[c] /\ plFuncs[c] = "ok"

\* ------------------------------------------------------------------------
\* Strings, interpolation and paths
\* ------------------------------------------------------------------------
\* A string is a sequence of tokens: the separator "/", pieces of text, and
\* whole %{...} expressions.  The empty string is the empty sequence.

\* %{EXPR} with a bare scope key, and the key it names
ScopeExprs == {"%{dir}", "%{fn}"}
ExprKey(tok) == IF tok = "%{dir}" THEN "dir" ELSE "fn"

\* %{}, %{::} and the other expressions of emptyInterpolations
EmptyExprs == {"%{}"}

\* %{METHOD('ARG')}: the expressions that methodMatch matches, with the
\* method name and the argument of each
MethodTable ==
    { [tok |-> "%{lookup('a')}", m |-> "lookup", arg |-> "a"],
      [tok |-> "%{hiera('b')}", m |-> "hiera", arg |-> "b"],
      [tok |-> "%{alias('a')}", m |-> "alias", arg |-> "a"],
      [tok |-> "%{literal('l')}", m |-> "literal", arg |-> "l"],
      [tok |-> "%{scope('dir')}", m |-> "scope", arg |-> "dir"],
      [tok |-> "%{foo('a')}", m |-> "foo", arg |-> "a"] }
MethodExprs == {e.tok : e \in MethodTable}
MethodEntry(tok) == CHOOSE e \in MethodTable : e.tok = tok

\* a "%{" that no "}" closes: iplPattern does not match it
Unclosed == "%{"

\* strings.Index(str, `%{`) >= 0
HasInterpolation(str) ==
    \E i \in 1..Len(str) :
        str[i] \in ScopeExprs \cup EmptyExprs \cup MethodExprs \cup {Unclosed}

\* the variables of the scope and the value each has when it is defined
ScopeVars == {"dir", "fn"}
ScopeValue(v) == IF v = "dir" THEN <<"by_fact">> ELSE <<"json_data">>

\* getMethodAndData(expr, allowMethods): the method and its data, or the
\* panic; an expression that methodMatch does not match is a scope key
ParseMethod(tok, allowMethods) ==
    IF tok \in MethodExprs
      THEN LET e == MethodEntry(tok) IN
           IF ~allowMethods
             THEN [err |-> "MethodSyntaxNotAllowed", method |-> "none", data |-> e.arg]
           ELSE IF e.m = "alias"
             THEN [err |-> "none", method |-> "alias", data |-> e.arg]
           ELSE IF e.m \in {"hiera", "lookup"}
             THEN [err |-> "none", method |-> "lookup", data |-> e.arg]
           ELSE IF e.m = "literal"
             THEN [err |-> "none", method |-> "literal", data |-> e.arg]
           ELSE IF e.m = "scope"
             THEN [err |-> "none", method |-> "scope", data |-> e.arg]
           ELSE [err |-> "UnknownInterpolationMethod", method |-> "none", data |-> e.arg]
      ELSE [err |-> "none", method |-> "scope", data |-> ExprKey(tok)]

GetMethodAndData_Always(tok, allowMethods) == ParseMethod(tok, TRUE)

GetMethodAndData(tok, allowMethods) == ParseMethod(tok, allowMethods)

\* getMethodAndData panics on a method expression when allowMethods is false
RECURSIVE MethodNotAllowed(_, _)
MethodNotAllowed(str, allowMethods) ==
    IF str = <<>> THEN FALSE
    ELSE \/ (/\ Head(str) \in MethodExprs
             /\ GetMethodAndData(Head(str), allowMethods).err = "MethodSyntaxNotAllowed")
         \/ MethodNotAllowed(Tail(str), allowMethods)

\* iplPattern.ReplaceAllStringFunc over the string: an empty expression and a
\* scope key that is not found give the empty string, a scope key that is
\* found gives its (interpolated) value
RECURSIVE Replace(_, _)
Replace(str, scope) ==
    IF str = <<>> THEN <<>>
    ELSE LET tok == Head(str)
             rest == Replace(Tail(str), scope)
         IN  IF tok \in EmptyExprs THEN rest
             ELSE IF tok \in ScopeExprs
               THEN IF ExprKey(tok) \in scope
                      THEN Replace(ScopeValue(ExprKey(tok)), scope) \o rest
                      ELSE rest
             ELSE <<tok>> \o rest

\* interpolateString(ic, str, allowMethods): the result, the changed flag and
\* whether it panicked
InterpolateString(str, scope, allowMethods) ==
    IF ~HasInterpolation(str)
      THEN [val |-> str, changed |-> FALSE, err |-> FALSE]
    ELSE IF MethodNotAllowed(str, allowMethods)
      THEN [val |-> str, changed |-> FALSE, err |-> TRUE]
    ELSE [val |-> Replace(str, scope), changed |-> TRUE, err |-> FALSE]

\* filepath.IsAbs
IsAbs(p) == p # <<>> /\ p[1] = "/"

\* filepath.Clean on the joined path: repeated and trailing separators and
\* "." elements are dropped
RECURSIVE Clean(_)
Clean(p) ==
    IF p = <<>> THEN <<>>
    ELSE IF Len(p) = 1 THEN IF p[1] = "." THEN <<>> ELSE p
    ELSE IF p[1] = "/" /\ p[2] = "/" THEN Clean(Tail(p))
    ELSE IF p[1] = "/" /\ p[2] = "." /\ (Len(p) = 2 \/ p[3] = "/")
      THEN Clean(<<"/">> \o SubSeq(p, 3, Len(p)))
    ELSE IF p[1] = "." /\ p[2] = "/" THEN Clean(SubSeq(p, 3, Len(p)))
    ELSE LET rest == Clean(Tail(p))
         IN  IF p[1] = "/" /\ rest = <<>> THEN <<"/">>
             ELSE IF p[1] = "/" /\ rest = <<"/">> THEN <<"/">>
             ELSE <<p[1]>> \o rest

\* a Clean result keeps a trailing separator only when it is the root
DropTrailing(p) ==
    IF Len(p) > 1 /\ p[Len(p)] = "/" THEN SubSeq(p, 1, Len(p) - 1) ELSE p

\* filepath.Join(a, b): empty elements are ignored, the result is cleaned
Join(a, b) ==
    IF a = <<>> /\ b = <<>> THEN <<>>
    ELSE IF a = <<>> THEN DropTrailing(Clean(b))
    ELSE IF b = <<>> THEN DropTrailing(Clean(a))
    ELSE DropTrailing(Clean(a \o <<"/">> \o b))

\* ------------------------------------------------------------------------
\* Entries: entry.initialize and hieraCfg.createEntry
\* ------------------------------------------------------------------------
\* hieraapi.FunctionKeys, hieraapi.LocationKeys, hieraapi.ReservedOptionKeys
FunctionKeys == {"data_hash", "data_dig", "lookup_key"}
LocationKeys == {"path", "paths", "glob", "globs", "uri", "uris", "mapped_paths"}
ReservedOptionKeys == LocationKeys \cup FunctionKeys \cup {"datadir"}

\* one pair of an entry hash: the key, and its value as a string (s), a list
\* of strings (l) or a map of options (o, a sequence of [k, v])
Pair(k, s, l, o) == [k |-> k, s |-> s, l |-> l, o |-> o]

NilFunction == [kind |-> "nil", name |-> <<>>]
NilOptions == [isNil |-> TRUE, m |-> <<>>]
NilLocations == [isNil |-> TRUE, l |-> <<>>]

\* &entry{cfg: hc, name: name}
NewEntry(name) ==
    [name |-> name, dataDir |-> <<>>, options |-> NilOptions,
     function |-> NilFunction, locations |-> NilLocations]

\* an unresolved location: &path{original: ...}, &glob{...}, &uri{original: ...}
Location(kind, original) ==
    [kind |-> kind, original |-> original, resolved |-> <<>>,
     exists |-> FALSE, isResolved |-> FALSE]

\* the locations of a list-valued key, in list order
LocationsOf(kind, l) == [i \in 1..Len(l) |-> Location(kind, l[i])]

HasReserved(o) == \E i \in 1..Len(o) : o[i].k \in ReservedOptionKeys

\* if e.function != nil
FunctionSet(f) == f.kind # "nil"

\* entry.initialize: entryHash.EachPair in the order of the hash; the first
\* panic ends the scan
RECURSIVE Initialize_(_, _, _)
Initialize_(e, hash, i) ==
    IF i > Len(hash) THEN [err |-> "none", entry |-> e]
    ELSE LET p == hash[i] IN
         IF p.k = "options"
           THEN IF HasReserved(p.o)
                  THEN [err |-> "OptionReservedByHiera", entry |-> e]
                  ELSE Initialize_([e EXCEPT !.options = [isNil |-> FALSE, m |-> p.o]],
                                   hash, i + 1)
         ELSE IF p.k \in FunctionKeys
           THEN IF FunctionSet(e.function)
                  THEN [err |-> "MultipleDataProviderFunctions", entry |-> e]
                  ELSE Initialize_([e EXCEPT !.function = [kind |-> p.k, name |-> p.s]],
                                   hash, i + 1)
         ELSE Initialize_(e, hash, i + 1)

EntryInitialize(e, hash) == Initialize_(e, hash, 1)

\* the switch of createEntry on the location key
NewLocations(p) ==
    IF p.k = "path" THEN <<Location("path", p.s)>>
    ELSE IF p.k = "paths" THEN LocationsOf("path", p.l)
    ELSE IF p.k = "glob" THEN <<Location("glob", p.s)>>
    ELSE IF p.k = "globs" THEN LocationsOf("glob", p.l)
    ELSE IF p.k = "uri" THEN <<Location("uri", p.s)>>
    ELSE IF p.k = "uris" THEN LocationsOf("uri", p.l)
    ELSE <<Location("mapped_paths", p.l[1] \o p.l[2] \o p.l[3])>>

LocationsSet_NonEmpty(loc) == loc.l # <<>>

\* if entry.locations != nil (a slice made with make is not nil, also when
\* it is empty)
LocationsSet(loc) == ~loc.isNil

\* the second scan of createEntry, for datadir and the location keys
RECURSIVE Locate_(_, _, _)
Locate_(e, hash, i) ==
    IF i > Len(hash) THEN [err |-> "none", entry |-> e]
    ELSE LET p == hash[i]
             e1 == IF p.k = "datadir" THEN [e EXCEPT !.dataDir = p.s] ELSE e
         IN  IF p.k \in LocationKeys
               THEN IF LocationsSet(e1.locations)
                      THEN [err |-> "MultipleLocationSpecs", entry |-> e1]
                      ELSE Locate_([e1 EXCEPT !.locations =
                                       [isNil |-> FALSE, l |-> NewLocations(p)]],
                                   hash, i + 1)
               ELSE Locate_(e1, hash, i + 1)

EntryLocate(e, hash) == Locate_(e, hash, 1)

\* hieraCfg.createEntry
CreateEntry(name, hash) ==
    LET r == EntryInitialize(NewEntry(name), hash)
    IN  IF r.err # "none" THEN r ELSE EntryLocate(r.entry, hash)

\* the pairs an entry hash is built from
NoOpts == <<>>
PairValues ==
    {Pair("options", <<>>, <<>>, o) :
        o \in {NoOpts, <<[k |-> "answer", v |-> <<"option a">>]>>,
               <<[k |-> "path", v |-> <<"x">>]>>}}
    \cup {Pair(k, <<"yaml_data">>, <<>>, NoOpts) : k \in {"data_hash", "lookup_key"}}
    \cup {Pair("datadir", <<"data">>, <<>>, NoOpts)}
    \cup {Pair("path", <<"common.yaml">>, <<>>, NoOpts)}
    \cup {Pair("paths", <<>>, l, NoOpts) : l \in {<<>>, <<<<"a.yaml">>, <<"b.yaml">>>>}}
    \cup {Pair("uris", <<>>, <<<<"http:", "/", "/", "h">>>>, NoOpts)}
    \cup {Pair("mapped_paths", <<>>, <<<<"svc">>, <<"s">>, <<"%{s}", ".yaml">>>>, NoOpts)}

\* entry hashes: up to MaxKeys pairs with distinct keys, in any order
EntryHashes ==
    {h \in UNION {[1..n -> PairValues] : n \in 0..MaxKeys} :
        \A i, j \in 1..Len(h) : i # j => h[i].k # h[j].k}

EntryInit ==
    /\ eHash \in EntryHashes
    /\ ePhase = "new"
    /\ eEntry = NewEntry(<<"e">>)
    /\ eErr = "none"

EntryIdle ==
    /\ eHash = <<>>
    /\ ePhase = "idle"
    /\ eEntry = NewEntry(<<"e">>)
    /\ eErr = "none"

\* createEntry: entry.initialize(ic, name, entryHash)
CeInitialize ==
    /\ ePhase = "new"
    /\ LET r == EntryInitialize(eEntry, eHash)
       IN  /\ eEntry' = r.entry
           /\ eErr' = r.err
           /\ ePhase' = IF r.err = "none" THEN "initialized" ELSE "failed"
    /\ UNCHANGED eHash
    /\ UNCHANGED notEntry

\* createEntry: the second EachPair, and the return of the entry
CeLocate ==
    /\ ePhase = "initialized"
    /\ LET r == EntryLocate(eEntry, eHash)
       IN  /\ eEntry' = r.entry
           /\ eErr' = r.err
           /\ ePhase' = IF r.err = "none" THEN "done" ELSE "failed"
    /\ UNCHANGED eHash
    /\ UNCHANGED notEntry

EntryNext == CeInitialize \/ CeLocate

\* ------------------------------------------------------------------------
\* Config: createConfig, createHierarchy, CreateProviders, entry.Resolve
\* ------------------------------------------------------------------------
\* filepath.Dir(path) of the configuration file
CfgRoot == <<"/", "etc">>

\* the files of the file system: directory and name
Files == {[dir |-> <<"/", "etc", "/", "data">>, name |-> <<"common.yaml">>],
          [dir |-> <<"/", "etc", "/", "by_fact">>, name |-> <<"named_", "by_fact", ".yaml">>]}

\* os.Stat(rp) succeeds
Stat(rp) == \E f \in Files : Join(f.dir, f.name) = rp

\* hh.Get5(`name`, px.EmptyString).String()
RECURSIVE NameOf_(_, _)
NameOf_(hh, i) ==
    IF i > Len(hh) THEN <<>>
    ELSE IF hh[i].k = "name" THEN hh[i].s ELSE NameOf_(hh, i + 1)
NameOf(hh) == NameOf_(hh, 1)

\* hc.makeDefaultConfig
MakeDefaultConfig ==
    [NewEntry(<<>>) EXCEPT !.dataDir = <<"data">>,
                           !.function = [kind |-> "data_hash", name |-> <<"yaml_data">>]]

\* hc.makeDefaultHierarchy
MakeDefaultHierarchy ==
    << [NewEntry(<<"Root">>) EXCEPT
          !.dataDir = <<".">>,
          !.locations = [isNil |-> FALSE, l |-> <<Location("path", <<"data.yaml">>)>>]],
       [NewEntry(<<"Common">>) EXCEPT
          !.locations = [isNil |-> FALSE, l |-> <<Location("path", <<"common.yaml">>)>>]] >>

\* function.Resolve: the name is interpolated without methods
ResolveFunction(f, scope) ==
    LET r == InterpolateString(f.name, scope, FALSE)
    IN  [err |-> r.err, f |-> IF r.changed THEN [f EXCEPT !.name = r.val] ELSE f]

\* doInterpolate(ic, ce.options, false) on the options map
RECURSIVE InterpolateOptions(_, _)
InterpolateOptions(m, scope) ==
    IF m = <<>> THEN [err |-> FALSE, changed |-> FALSE, m |-> <<>>]
    ELSE LET r == InterpolateString(Head(m).v, scope, FALSE)
             rest == InterpolateOptions(Tail(m), scope)
         IN  [err |-> r.err \/ rest.err,
              changed |-> r.changed \/ rest.changed,
              m |-> <<[k |-> Head(m).k, v |-> r.val]>> \o rest.m]

\* path.Resolve
PathResolve(loc, scope, dataRoot) ==
    LET r == InterpolateString(loc.original, scope, FALSE)
        rp == Join(dataRoot, r.val)
    IN  [err |-> r.err,
         l |-> <<[kind |-> "path", original |-> loc.original, resolved |-> rp,
                  exists |-> Stat(rp), isResolved |-> TRUE]>>]

\* uri.Resolve
UriResolve(loc, scope) ==
    LET r == InterpolateString(loc.original, scope, FALSE)
    IN  [err |-> r.err,
         l |-> <<[kind |-> "uri", original |-> loc.original, resolved |-> r.val,
                  exists |-> TRUE, isResolved |-> TRUE]>>]

\* the files of dataRoot that the pattern *.yaml matches, in order
RECURSIVE SeqOfSet(_)
SeqOfSet(S) ==
    IF S = {} THEN <<>>
    ELSE LET x == CHOOSE y \in S : TRUE IN <<x>> \o SeqOfSet(S \ {x})

\* Glob.Resolve: interpolate, expand against dataRoot, one Location per match
GlobResolve(loc, scope, dataRoot) ==
    LET r == InterpolateString(loc.original, scope, FALSE)
        matches == SeqOfSet({f \in Files : f.dir = dataRoot /\ r.val = <<"*", ".yaml">>})
    IN  [err |-> r.err,
         l |-> [i \in 1..Len(matches) |->
                  [kind |-> "glob", original |-> loc.original,
                   resolved |-> Join(dataRoot, matches[i].name),
                   exists |-> TRUE, isResolved |-> TRUE]]]

\* l.Resolve(ic, dataRoot)
LocationResolve(loc, scope, dataRoot) ==
    IF loc.kind = "path" THEN PathResolve(loc, scope, dataRoot)
    ELSE IF loc.kind = "uri" THEN UriResolve(loc, scope)
    ELSE GlobResolve(loc, scope, dataRoot)

\* for _, l := range ce.locations { ne = append(ne, l.Resolve(ic, dataRoot)...) }
RECURSIVE ResolveLocations(_, _, _)
ResolveLocations(ls, scope, dataRoot) ==
    IF ls = <<>> THEN [err |-> FALSE, l |-> <<>>]
    ELSE LET r == LocationResolve(Head(ls), scope, dataRoot)
             rest == ResolveLocations(Tail(ls), scope, dataRoot)
         IN  [err |-> r.err \/ rest.err, l |-> r.l \o rest.l]

\* the dataDir of entry.Resolve: the default when it is empty, else the
\* interpolated string
DataDirOf(e, hasDefaults, defaults, scope) ==
    IF e.dataDir = <<>>
      THEN [err |-> FALSE,
            d |-> IF hasDefaults THEN defaults.dataDir ELSE <<"data">>]
      ELSE LET r == InterpolateString(e.dataDir, scope, FALSE)
           IN  [err |-> r.err, d |-> IF r.changed THEN r.val ELSE e.dataDir]

\* the function of entry.Resolve: inherited when nil, else resolved
FunctionOf(e, hasDefaults, defaults, scope) ==
    IF e.function.kind = "nil"
      THEN [err |-> FALSE,
            f |-> IF hasDefaults THEN defaults.function
                  ELSE [kind |-> "data_hash", name |-> <<"yaml_data">>]]
      ELSE ResolveFunction(e.function, scope)

\* the options of entry.Resolve: inherited when nil, interpolated when not empty
OptionsOf(e, hasDefaults, defaults, scope) ==
    IF e.options.isNil
      THEN [err |-> FALSE, o |-> IF hasDefaults THEN defaults.options ELSE e.options]
      ELSE IF Len(e.options.m) > 0
        THEN LET r == InterpolateOptions(e.options.m, scope)
             IN  [err |-> r.err,
                  o |-> IF r.changed THEN [isNil |-> FALSE, m |-> r.m] ELSE e.options]
        ELSE [err |-> FALSE, o |-> e.options]

\* entry.Resolve(ic, defaults): the copy, or the panic of an interpolation or
\* of the missing function
ResolveEntry(e, hasDefaults, defaults, scope) ==
    LET f == FunctionOf(e, hasDefaults, defaults, scope)
        d == DataDirOf(e, hasDefaults, defaults, scope)
        o == OptionsOf(e, hasDefaults, defaults, scope)
        dataRoot == IF IsAbs(d.d) THEN d.d ELSE Join(CfgRoot, d.d)
        ls == IF e.locations.isNil THEN [err |-> FALSE, l |-> <<>>]
              ELSE ResolveLocations(e.locations.l, scope, dataRoot)
    IN  [err |-> f.err \/ f.f.kind = "nil" \/ d.err \/ o.err \/ ls.err,
         entry |-> [e EXCEPT !.function = f.f, !.dataDir = d.d, !.options = o.o,
                             !.locations = [isNil |-> e.locations.isNil, l |-> ls.l]]]

\* the entry hashes of the hierarchies tried
NamePair(n) == Pair("name", n, <<>>, NoOpts)
StrPair(k, str) == Pair(k, str, <<>>, NoOpts)
HierHashes ==
    { <<>>,
      <<NamePair(<<>>), StrPair("path", <<"common.yaml">>)>>,
      <<NamePair(<<"a">>), StrPair("datadir", <<"%{dir}">>),
        StrPair("path", <<"named_", "%{dir}", ".yaml">>)>>,
      <<NamePair(<<"a">>), StrPair("data_dig", <<"%{fn}">>),
        StrPair("uri", <<"http:", "/", "/", "%{dir}">>)>>,
      <<NamePair(<<"b">>), StrPair("lookup_key", <<"my_plugin">>),
        Pair("options", <<>>, <<>>, <<[k |-> "answer", v |-> <<"%{dir}">>]>>),
        StrPair("glob", <<"*", ".yaml">>)>>,
      <<NamePair(<<"c">>), StrPair("data_hash", <<"yaml_data">>),
        StrPair("lookup_key", <<"my_plugin">>)>> }

\* a key of the configuration hash: absent, or present with its value
Absent == [present |-> FALSE, v |-> <<>>]
Present(v) == [present |-> TRUE, v |-> v]

DefaultsHashes ==
    { <<StrPair("datadir", <<"%{dir}">>)>>,
      <<StrPair("data_hash", <<"json_data">>), StrPair("datadir", <<"/", "abs">>),
        Pair("options", <<>>, <<>>, <<[k |-> "answer", v |-> <<"option a">>]>>)>> }

Hierarchies == UNION {[1..n -> HierHashes] : n \in 0..MaxEntries}

DefaultHierarchies ==
    { <<<<NamePair(<<"a">>), StrPair("path", <<"common.yaml">>)>>>>,
      <<<<NamePair(<<"d">>)>>, <<NamePair(<<"d">>), StrPair("path", <<"x.yaml">>)>>>> }

ConfigHashes ==
    [defaults : {Absent} \cup {Present(d) : d \in DefaultsHashes},
     hierarchy : {Absent} \cup {Present(h) : h \in Hierarchies},
     default_hierarchy : {Absent} \cup {Present(h) : h \in DefaultHierarchies}]

NilCfg == [defaults |-> NewEntry(<<>>), hierarchy |-> <<>>, defaultHierarchy |-> <<>>]

CfgInit ==
    /\ cIn \in ConfigHashes
    /\ cScope \in SUBSET ScopeVars
    /\ cPhase = "defaults"
    /\ cPos = 1
    /\ cNames = {}
    /\ cEntries = <<>>
    /\ cCfg = NilCfg
    /\ cErr = "none"
    /\ cDefaults = NewEntry(<<>>)
    /\ cProviders = <<>>

CfgIdle ==
    /\ cIn = [defaults |-> Absent, hierarchy |-> Absent, default_hierarchy |-> Absent]
    /\ cScope = {}
    /\ cPhase = "idle"
    /\ cPos = 1
    /\ cNames = {}
    /\ cEntries = <<>>
    /\ cCfg = NilCfg
    /\ cErr = "none"
    /\ cDefaults = NewEntry(<<>>)
    /\ cProviders = <<>>

\* createConfig: cfg.defaults is created from the defaults hash, or made
CcDefaults ==
    /\ cPhase = "defaults"
    /\ LET r == IF cIn.defaults.present
                  THEN CreateEntry(<<"defaults">>, cIn.defaults.v)
                  ELSE [err |-> "none", entry |-> MakeDefaultConfig]
       IN  /\ cErr' = r.err
           /\ cCfg' = IF r.err = "none" THEN [cCfg EXCEPT !.defaults = r.entry] ELSE cCfg
           /\ cPhase' = IF r.err = "none" THEN "hierarchy" ELSE "failed"
    /\ UNCHANGED <<cIn, cScope, cPos, cNames, cEntries, cDefaults, cProviders>>
    /\ UNCHANGED notCfg

\* the list createHierarchy is working on
ListOf(phase) ==
    IF phase = "hierarchy" THEN cIn.hierarchy ELSE cIn.default_hierarchy

NameTaken_Never(names, name) == FALSE

\* if uniqueNames[name]
NameTaken(names, name) == name \in names

\* createHierarchy, one turn of hierarchy.Each: the name check, then createEntry
ChEntry ==
    /\ cPhase \in {"hierarchy", "default_hierarchy"}
    /\ ListOf(cPhase).present
    /\ cPos <= Len(ListOf(cPhase).v)
    /\ LET hh == ListOf(cPhase).v[cPos]
           name == NameOf(hh)
           r == CreateEntry(name, hh)
       IN  IF NameTaken(cNames, name)
             THEN /\ cErr' = "HierarchyNameMultiplyDefined"
                  /\ cPhase' = "failed"
                  /\ UNCHANGED <<cPos, cNames, cEntries>>
             ELSE IF r.err # "none"
               THEN /\ cErr' = r.err
                    /\ cPhase' = "failed"
                    /\ cNames' = cNames \cup {name}
                    /\ UNCHANGED <<cPos, cEntries>>
               ELSE /\ cEntries' = Append(cEntries, r.entry)
                    /\ cNames' = cNames \cup {name}
                    /\ cPos' = cPos + 1
                    /\ UNCHANGED <<cErr, cPhase>>
    /\ UNCHANGED <<cIn, cScope, cCfg, cDefaults, cProviders>>
    /\ UNCHANGED notCfg

\* createHierarchy returns its entries to createConfig; a list that is absent
\* gives the default hierarchy, or no default_hierarchy at all
ChReturn ==
    /\ cPhase \in {"hierarchy", "default_hierarchy"}
    /\ ListOf(cPhase).present => cPos > Len(ListOf(cPhase).v)
    /\ cCfg' = IF cPhase = "hierarchy"
                 THEN [cCfg EXCEPT !.hierarchy =
                         IF cIn.hierarchy.present THEN cEntries ELSE MakeDefaultHierarchy]
                 ELSE [cCfg EXCEPT !.defaultHierarchy = cEntries]
    /\ cPhase' = IF cPhase = "hierarchy" THEN "default_hierarchy" ELSE "created"
    /\ cPos' = 1
    /\ cNames' = {}
    /\ cEntries' = <<>>
    /\ UNCHANGED <<cIn, cScope, cErr, cDefaults, cProviders>>
    /\ UNCHANGED notCfg

\* CreateProviders: defaults := hc.defaults.Resolve(ic, nil)
CpDefaults ==
    /\ cPhase \in {"created", "createdDefault"}
    /\ LET r == ResolveEntry(cCfg.defaults, FALSE, cCfg.defaults, cScope)
       IN  /\ cDefaults' = IF r.err THEN cDefaults ELSE r.entry
           /\ cErr' = IF r.err THEN "ResolveFailed" ELSE cErr
           /\ cPhase' = IF r.err THEN "failed"
                        ELSE IF cPhase = "created" THEN "providers" ELSE "defaultProviders"
    /\ UNCHANGED <<cIn, cScope, cPos, cNames, cEntries, cCfg, cProviders>>
    /\ UNCHANGED notCfg

\* the hierarchy CreateProviders is working on
EntriesOf(phase) ==
    IF phase = "providers" THEN cCfg.hierarchy ELSE cCfg.defaultHierarchy

\* CreateProviders, one turn of the loop: he.Resolve(ic, defaults)
CpEntry ==
    /\ cPhase \in {"providers", "defaultProviders"}
    /\ cPos <= Len(EntriesOf(cPhase))
    /\ LET r == ResolveEntry(EntriesOf(cPhase)[cPos], TRUE, cDefaults, cScope)
       IN  IF r.err
             THEN /\ cErr' = "ResolveFailed"
                  /\ cPhase' = "failed"
                  /\ UNCHANGED <<cPos, cProviders>>
             ELSE /\ cProviders' = Append(cProviders, r.entry)
                  /\ cPos' = cPos + 1
                  /\ UNCHANGED <<cErr, cPhase>>
    /\ UNCHANGED <<cIn, cScope, cNames, cEntries, cCfg, cDefaults>>
    /\ UNCHANGED notCfg

\* CreateProviders returns: resolvedConfig.Resolve goes on with the default
\* hierarchy, then it is done
CpReturn_ ==
    /\ cPhase \in {"providers", "defaultProviders"}
    /\ cPos > Len(EntriesOf(cPhase))
    /\ cPhase' = IF cPhase = "providers" THEN "createdDefault" ELSE "resolved"
    /\ cPos' = 1
    /\ UNCHANGED <<cIn, cScope, cNames, cEntries, cCfg, cErr, cDefaults, cProviders>>
    /\ UNCHANGED notCfg

CfgNext == CcDefaults \/ ChEntry \/ ChReturn \/ CpDefaults \/ CpEntry \/ CpReturn_

\* ------------------------------------------------------------------------
\* Properties of the configuration
\* ------------------------------------------------------------------------
Distinct(es) == \A i, j \in 1..Len(es) : i # j => es[i].name # es[j].name

\* two entries of the list that createHierarchy is given carry the same name
SameNameTwice(list) ==
    list.present /\ \E i, j \in 1..Len(list.v) : i < j /\ NameOf(list.v[i]) = NameOf(list.v[j])

\* createHierarchy has returned the hierarchy, or the default hierarchy
HierarchyCreated ==
    cPhase \in {"default_hierarchy", "created", "providers", "createdDefault",
                "defaultProviders", "resolved"}
DefaultHierarchyCreated ==
    cPhase \in {"created", "providers", "createdDefault", "defaultProviders", "resolved"}

NumKeys(h, K) == Cardinality({i \in 1..Len(h) : h[i].k \in K})

\* the function and the locations that the keys of the hash give
FunctionGiven(h) ==
    IF NumKeys(h, FunctionKeys) = 0 THEN NilFunction
    ELSE LET i == CHOOSE i \in 1..Len(h) : h[i].k \in FunctionKeys
         IN  [kind |-> h[i].k, name |-> h[i].s]
LocationsGiven(h) ==
    IF NumKeys(h, LocationKeys) = 0 THEN NilLocations
    ELSE LET i == CHOOSE i \in 1..Len(h) : h[i].k \in LocationKeys
         IN  [isNil |-> FALSE, l |-> NewLocations(h[i])]

OptionsReserved(h) == \E i \in 1..Len(h) : h[i].k = "options" /\ HasReserved(h[i].o)

EntryReturned == ePhase \in {"done", "failed"}

\* the entry is accepted with the function and the locations of its hash
Accepted ==
    /\ ePhase = "done"
    /\ eEntry.function = FunctionGiven(eHash)
    /\ eEntry.locations = LocationsGiven(eHash)

\* C9 as stated: an entry with more than one function key or more than one
\* location key is rejected, and every entry with at most one key of each
\* group is accepted with that function and those locations.
C9_RejectedIffMultipleKeys ==
    EntryReturned =>
       IF NumKeys(eHash, FunctionKeys) > 1 \/ NumKeys(eHash, LocationKeys) > 1
         THEN ePhase = "failed"
         ELSE Accepted

\* C9: an entry with more than one function key or more than one location
\* key is rejected (with MultipleDataProviderFunctions and
\* MultipleLocationSpecs when its options hold no reserved key), also when
\* the first location key holds an empty list; an entry with at most one
\* key of each group and no reserved key in its options is accepted with
\* that function and those locations.
C9_RejectedOnMultipleKeys ==
    EntryReturned =>
       IF NumKeys(eHash, FunctionKeys) > 1 \/ NumKeys(eHash, LocationKeys) > 1
         THEN /\ ePhase = "failed"
              /\ ~OptionsReserved(eHash) =>
                    eErr = IF NumKeys(eHash, FunctionKeys) > 1
                             THEN "MultipleDataProviderFunctions"
                             ELSE "MultipleLocationSpecs"
         ELSE IF OptionsReserved(eHash)
           THEN ePhase = "failed" /\ eErr = "OptionReservedByHiera"
           ELSE Accepted

\* an entry whose first location key holds an empty list has been rejected
\* for its second location key
C9_Witness ==
    /\ ePhase = "failed"
    /\ eErr = "MultipleLocationSpecs"
    /\ \E i, j \in 1..Len(eHash) :
          /\ i < j
          /\ eHash[i].k = "paths"
          /\ eHash[i].l = <<>>
          /\ eHash[j].k \in LocationKeys

\* the entries that CreateProviders has resolved, the defaults included
ResolvedEntries ==
    {cProviders[i] : i \in 1..Len(cProviders)}
      \cup (IF cPhase \in {"providers", "defaultProviders", "createdDefault", "resolved"}
              THEN {cDefaults} ELSE {})

\* C10: every entry resolved by CreateProviders has a function, a dataDir
\* that is not empty and only resolved locations; the function is
\* data_hash:yaml_data when neither the entry nor the defaults name one.
C10_ResolvedEntryComplete ==
    /\ \A e \in ResolvedEntries :
          /\ e.function.kind # "nil"
          /\ e.dataDir # <<>>
          /\ \A i \in 1..Len(e.locations.l) : e.locations.l[i].isResolved
    /\ (cPhase \in {"providers", "defaultProviders", "createdDefault", "resolved"}
          /\ cCfg.defaults.function.kind = "nil")
         => cDefaults.function = [kind |-> "data_hash", name |-> <<"yaml_data">>]

\* an entry has been resolved whose datadir interpolates a variable that
\* the scope does not define
C10_Reached ==
    \E i \in 1..Len(cProviders) :
       /\ i <= Len(cCfg.hierarchy)
       /\ cCfg.hierarchy[i].dataDir = <<"%{dir}">>
       /\ "dir" \notin cScope

\* ------------------------------------------------------------------------
\* Interpolation with methods: interpolateString, the lookups it starts and
\* the name stack of the invocation
\* ------------------------------------------------------------------------
\* a value: a string (its tokens), an integer (its digits) or undef
Str(str) == [t |-> "str", s |-> str]
IntValue == [t |-> "int", s |-> <<"7">>]
Undef == [t |-> "undef", s |-> <<>>]
NoValue == [t |-> "none", s |-> <<>>]

\* val.String()
Stringify(v) == IF v.t = "undef" THEN <<"undef">> ELSE v.s

\* the keys of the data, and the data sets tried: plain values, a key that
\* looks itself up, two keys that look each other up, a value that is not a
\* string and a key that is absent, a chain that ends in the scope
DataKeys == {"a", "b"}
DataSets ==
    { [a |-> Str(<<"va">>), b |-> Str(<<"vb">>)],
      [a |-> Str(<<"%{lookup('a')}">>), b |-> IntValue],
      [a |-> Str(<<"%{hiera('b')}">>), b |-> Str(<<"%{alias('a')}">>)],
      [a |-> IntValue, b |-> NoValue],
      [a |-> Str(<<"p", "%{hiera('b')}">>), b |-> Str(<<"%{dir}">>)] }

\* the tokens of the strings interpolated, and the strings
IplTokens == {"x", "%{dir}", "%{}", "%{"} \cup MethodExprs
IplStrings == UNION {[1..n -> IplTokens] : n \in 0..MaxTokens}

\* one activation of interpolateString: the string, the match being
\* replaced, the replacements so far, the result an alias has set; raw is the
\* value of a lookup that found no string to interpolate
Frame(str, allow, via) ==
    [str |-> str, pos |-> 1, out |-> <<>>, res |-> NoValue, raw |-> NoValue,
     allow |-> allow, via |-> via]

\* the frame of the lookup of a key by lookup(...) or alias(...): the
\* provider interpolates a value it finds with ic.Interpolate(value, true);
\* a key that is not found gives the default of the lookup, undef
LookupFrame(v, via) ==
    IF v.t = "str" THEN Frame(v.s, TRUE, via)
    ELSE [Frame(<<>>, TRUE, via) EXCEPT !.raw = IF v.t = "none" THEN Undef ELSE v]

\* interpolateString has gone through the string of the frame
FrameDone(f) ==
    f.raw # NoValue \/ ~HasInterpolation(f.str) \/ f.pos > Len(f.str)

\* the result of interpolateString: the string itself when it holds no "%{",
\* the value an alias has set, or else the string with its replacements
FrameValue(f) ==
    IF f.raw # NoValue THEN f.raw
    ELSE IF ~HasInterpolation(f.str) THEN Str(f.str)
    ELSE IF f.res # NoValue THEN f.res
    ELSE Str(f.out)

AliasEmbedded_Never(tok, str) == FALSE

\* methodKey == aliasMethod && match != str
AliasEmbedded(tok, str) == str # <<tok>>

OnStack_Never(stack, root) == FALSE

\* WithLookup: the root of the key is on the name stack
OnStack(stack, root) == \E i \in 1..Len(stack) : stack[i] = root

\* WithLookup: push on entry, pop on every exit
Push(stack, root) == Append(stack, root)
Pop(stack) == SubSeq(stack, 1, Len(stack) - 1)

Top == iFrames[Len(iFrames)]

IplInit ==
    /\ iData \in DataSets
    /\ iScope \in SUBSET {"dir"}
    /\ iAllow \in BOOLEAN
    /\ iStr \in IplStrings
    /\ iPhase = "idle"
    /\ iFrames = <<>>
    /\ iStack = <<>>
    /\ iResult = NoValue
    /\ iChanged = FALSE
    /\ iErr = "none"
    /\ iOpt = "none"

IplIdle ==
    /\ iData = [a |-> NoValue, b |-> NoValue]
    /\ iScope = {}
    /\ iAllow = FALSE
    /\ iStr = <<>>
    /\ iPhase = "off"
    /\ iFrames = <<>>
    /\ iStack = <<>>
    /\ iResult = NoValue
    /\ iChanged = FALSE
    /\ iErr = "none"
    /\ iOpt = "none"

\* session.Invocation: a new invocation, with nameStack: []string{}; the
\* session hands one out for each request, also after an earlier one ended
Invocation ==
    /\ iPhase \in {"idle", "done", "failed"}
    /\ iPhase' = "created"
    /\ iStack' = <<>>
    /\ iResult' = NoValue
    /\ iChanged' = FALSE
    /\ iErr' = "none"
    /\ UNCHANGED <<iData, iScope, iAllow, iStr, iFrames, iOpt>>
    /\ UNCHANGED notIpl

\* Interpolate(ic, value, allowMethods) is called on the string
IplStart ==
    /\ iPhase = "created"
    /\ iPhase' = "run"
    /\ iFrames' = <<Frame(iStr, iAllow, "top")>>
    /\ UNCHANGED <<iData, iScope, iAllow, iStr, iStack, iResult, iChanged, iErr, iOpt>>
    /\ UNCHANGED notIpl

\* the match interpolateString is about to replace
Running == iPhase = "run" /\ iFrames # <<>> /\ ~FrameDone(Top)
Match == Top.str[Top.pos]
IsMatch(tok) == tok \in ScopeExprs \cup EmptyExprs \cup MethodExprs

\* the panic the replacement of the match raises, "none" when it raises none
MatchPanic(f, tok, stack) ==
    LET pm == GetMethodAndData(tok, f.allow) IN
    IF ~IsMatch(tok) \/ tok \in EmptyExprs THEN "none"
    ELSE IF pm.err # "none" THEN pm.err
    ELSE IF pm.method = "alias" /\ AliasEmbedded(tok, f.str)
      THEN "AliasNotEntireString"
    ELSE IF pm.method \in {"alias", "lookup"} /\ OnStack(stack, pm.data)
      THEN "EndlessRecursion"
    ELSE "none"

\* the text that replaces a match that starts no lookup
Replacement(tok, allow, scope) ==
    LET pm == GetMethodAndData(tok, allow) IN
    IF ~IsMatch(tok) THEN <<tok>>
    ELSE IF tok \in EmptyExprs THEN <<>>
    ELSE IF pm.method = "literal" THEN <<pm.data>>
    ELSE IF pm.data \in scope THEN Replace(ScopeValue(pm.data), scope)
    ELSE <<>>

SetTop(f) == [iFrames EXCEPT ![Len(iFrames)] = f]

\* a piece of text is kept, or a match is replaced by the empty string, by a
\* literal or by the value of a variable of the scope
IplReplace ==
    /\ Running
    /\ MatchPanic(Top, Match, iStack) = "none"
    /\ ~IsMatch(Match) \/ Match \in EmptyExprs
         \/ GetMethodAndData(Match, Top.allow).method \in {"literal", "scope"}
    /\ iFrames' = SetTop([Top EXCEPT !.out = @ \o Replacement(Match, Top.allow, iScope),
                                     !.pos = @ + 1])
    /\ UNCHANGED <<iData, iScope, iAllow, iStr, iPhase, iStack, iResult, iChanged, iErr, iOpt>>
    /\ UNCHANGED notIpl

\* lookup.Lookup(ic, expr, eval.UNDEF, nil) for a lookup(...) or alias(...):
\* WithLookup pushes the root of the key and the provider interpolates what
\* it finds
IplLookup ==
    /\ Running
    /\ MatchPanic(Top, Match, iStack) = "none"
    /\ IsMatch(Match) /\ Match \notin EmptyExprs
    /\ LET pm == GetMethodAndData(Match, Top.allow) IN
         /\ pm.method \in {"alias", "lookup"}
         /\ iStack' = Push(iStack, pm.data)
         /\ iFrames' = Append(iFrames, LookupFrame(iData[pm.data], pm.method))
    /\ UNCHANGED <<iData, iScope, iAllow, iStr, iPhase, iResult, iChanged, iErr, iOpt>>
    /\ UNCHANGED notIpl

\* the replacement of the match panics
IplPanic ==
    /\ Running
    /\ MatchPanic(Top, Match, iStack) # "none"
    /\ iPhase' = "panic"
    /\ iErr' = MatchPanic(Top, Match, iStack)
    /\ UNCHANGED <<iData, iScope, iAllow, iStr, iFrames, iStack, iResult, iChanged, iOpt>>
    /\ UNCHANGED notIpl

\* a lookup returns to the interpolateString that started it: WithLookup
\* pops the name; an alias sets the result, a lookup is replaced by
\* val.String()
IplReturn ==
    /\ iPhase = "run"
    /\ Len(iFrames) >= 2
    /\ FrameDone(Top)
    /\ LET v == FrameValue(Top)
           p == iFrames[Len(iFrames) - 1]
           q == IF Top.via = "alias"
                  THEN [p EXCEPT !.res = v, !.pos = @ + 1]
                  ELSE [p EXCEPT !.out = @ \o Stringify(v), !.pos = @ + 1]
       IN  iFrames' = [SubSeq(iFrames, 1, Len(iFrames) - 1) EXCEPT ![Len(iFrames) - 1] = q]
    /\ iStack' = Pop(iStack)
    /\ UNCHANGED <<iData, iScope, iAllow, iStr, iPhase, iResult, iChanged, iErr, iOpt>>
    /\ UNCHANGED notIpl

\* the panic leaves a lookup: the deferred pop of WithLookup runs
IplUnwind ==
    /\ iPhase = "panic"
    /\ Len(iFrames) >= 2
    /\ iFrames' = SubSeq(iFrames, 1, Len(iFrames) - 1)
    /\ iStack' = Pop(iStack)
    /\ UNCHANGED <<iData, iScope, iAllow, iStr, iPhase, iResult, iChanged, iErr, iOpt>>
    /\ UNCHANGED notIpl

\* the panic leaves the outermost interpolateString
IplFail ==
    /\ iPhase = "panic"
    /\ Len(iFrames) = 1
    /\ iFrames' = <<>>
    /\ iPhase' = "failed"
    /\ UNCHANGED <<iData, iScope, iAllow, iStr, iStack, iResult, iChanged, iErr, iOpt>>
    /\ UNCHANGED notIpl

\* the outermost interpolateString returns its result and the changed flag
IplFinish ==
    /\ iPhase = "run"
    /\ Len(iFrames) = 1
    /\ FrameDone(Top)
    /\ iResult' = FrameValue(Top)
    /\ iChanged' = HasInterpolation(Top.str)
    /\ iFrames' = <<>>
    /\ iPhase' = "done"
    /\ UNCHANGED <<iData, iScope, iAllow, iStr, iStack, iErr, iOpt>>
    /\ UNCHANGED notIpl

\* an entry whose options hold the string under one key
OptionsEntry(str) ==
    [NewEntry("e") EXCEPT !.options = [isNil |-> FALSE, m |-> <<[k |-> "path", v |-> str]>>]]

\* entry.Resolve interpolates the options of the entry
IplOptions ==
    /\ iPhase \in {"done", "failed"}
    /\ iOpt = "none"
    /\ iOpt' = IF OptionsOf(OptionsEntry(iStr), FALSE, OptionsEntry(iStr), iScope).err
                 THEN "failed" ELSE "resolved"
    /\ UNCHANGED <<iData, iScope, iAllow, iStr, iPhase, iFrames, iStack, iResult, iChanged, iErr>>
    /\ UNCHANGED notIpl

IplNext ==
    \/ Invocation
    \/ IplStart
    \/ IplReplace
    \/ IplLookup
    \/ IplPanic
    \/ IplReturn
    \/ IplUnwind
    \/ IplFail
    \/ IplFinish
    \/ IplOptions

\* ------------------------------------------------------------------------
\* Properties of the interpolation
\* ------------------------------------------------------------------------
HasMethodExpr(str) == \E i \in 1..Len(str) : str[i] \in MethodExprs
IplEnded == iPhase \in {"done", "failed"}

\* C11: when methods are not allowed, a string that holds any
\* METHOD('ARG') expression fails with the method-syntax-not-allowed error,
\* whatever the method name is, and a string that holds none is expanded, its
\* bare scope references included; the options of an entry are interpolated
\* with methods not allowed whatever the caller of the interpolation allows
C11_MethodsNotAllowed ==
    /\ (IplEnded /\ ~iAllow /\ HasMethodExpr(iStr))
         => (iPhase = "failed" /\ iErr = "MethodSyntaxNotAllowed")
    /\ (IplEnded /\ ~iAllow /\ ~HasMethodExpr(iStr))
         => (/\ iPhase = "done"
             /\ iResult = Str(Replace(iStr, iScope))
             /\ (<<"%{dir}">> = iStr /\ "dir" \in iScope => iResult = Str(<<"by_fact">>)))
    /\ iOpt # "none" => (iOpt = "failed" <=> HasMethodExpr(iStr))

C11_Witness ==
    /\ ~iAllow
    /\ iStr = <<"%{dir}", "%{foo('a')}">>
    /\ iPhase = "failed"
    /\ iErr = "MethodSyntaxNotAllowed"
    /\ iOpt = "failed"

AliasExprs == {e.tok : e \in {x \in MethodTable : x.m = "alias"}}
HasAlias(str) == \E i \in 1..Len(str) : str[i] \in AliasExprs

\* C12: with methods allowed, an alias expression that is the entire string
\* gives the looked-up value itself, an integer staying an integer, and no
\* activation of interpolateString holds an alias result unless its string
\* is the alias expression alone; a string that holds an alias expression
\* and anything else fails, with the alias-not-entire-string error when the
\* alias is the first expression of the string
C12_AliasEntireString ==
    /\ (iPhase = "done" /\ iAllow /\ Len(iStr) = 1 /\ HasAlias(iStr))
         => (/\ iChanged
             /\ iResult.t \in {"str", "int", "undef"}
             /\ iData.a.t = "int" => iResult = iData.a
             /\ (iData.a.t = "str" /\ ~HasInterpolation(iData.a.s)) => iResult = iData.a)
    /\ \A i \in 1..Len(iFrames) :
         iFrames[i].res # NoValue
           => (Len(iFrames[i].str) = 1 /\ HasAlias(iFrames[i].str))
    /\ (IplEnded /\ iAllow /\ Len(iStr) >= 2 /\ HasAlias(iStr))
         => (/\ iPhase = "failed"
             /\ iStr[1] \in AliasExprs \cup {"x", "%{dir}", "%{}", "%{"}
                  /\ iStr[2] \in AliasExprs
                  => iErr = "AliasNotEntireString")

C12_Witness ==
    /\ iAllow
    /\ iStr = <<"%{alias('a')}">>
    /\ iData.a = IntValue
    /\ iPhase = "done"
    /\ iResult = IntValue

\* data in which a key looks itself up, and in which two keys reach each other
SelfLookup == [a |-> Str(<<"%{lookup('a')}">>), b |-> IntValue]
MutualLookup == [a |-> Str(<<"%{hiera('b')}">>), b |-> Str(<<"%{alias('a')}">>)]

\* C13: no root is on the name stack twice; the stack holds exactly the
\* roots of the lookups that have not returned, so every return and every
\* panic pops what the lookup pushed and the stack is empty when the
\* interpolation has ended; a lookup that reaches a root already on the stack,
\* directly or through a chain of lookup and alias, fails with the
\* endless-recursion error; a new invocation starts with an empty stack
C13_NameStack ==
    /\ \A i, j \in 1..Len(iStack) : iStack[i] = iStack[j] => i = j
    /\ iFrames # <<>> => Len(iStack) = Len(iFrames) - 1
    /\ IplEnded => iStack = <<>>
    /\ iPhase = "created" => iStack = <<>>
    /\ (IplEnded /\ iAllow /\ iData \in {SelfLookup, MutualLookup}
          /\ (\E i \in 1..Len(iStr) :
                \/ iStr[i] = "%{lookup('a')}"
                \/ iStr[i] = "%{hiera('b')}" /\ iData = MutualLookup)
          /\ (\A j \in 1..Len(iStr) : iStr[j] \notin AliasExprs \cup {"%{foo('a')}"}))
         => (iPhase = "failed" /\ iErr = "EndlessRecursion")

C13_Witness ==
    /\ iAllow
    /\ iData = MutualLookup
    /\ iStr = <<"x", "%{lookup('a')}">>
    /\ iPhase = "failed"
    /\ iErr = "EndlessRecursion"
    /\ iStack = <<>>

\* ------------------------------------------------------------------------
\* hieraCfg.Resolve, the lookup of lookup_options and the lookup of a key
\* ------------------------------------------------------------------------
\* the options of one root in lookup_options; "-" is an absent option
Opt(merge, conv) == [merge |-> merge, conv |-> conv]
NoOpt == Opt("-", "-")

\* a lookup_options hash: the options of each root
Roots == {"k", "j"}
OptMap(ok, oj) == [t |-> "map", m |-> [k |-> ok, j |-> oj]]

\* r.lookupOptions == nil
NilMap == [t |-> "nil", m |-> [k |-> NoOpt, j |-> NoOpt]]

\* what the two providers of the hierarchy may hold: a value for the keys
\* looked up, and a lookup_options hash
FirstData ==
    [val : {NoValue, Str(<<"v1">>)},
     lo : {NoValue, OptMap(Opt("unique", "-"), NoOpt), OptMap(Opt("-", "T"), NoOpt)}]
SecondData ==
    [val : {NoValue, Str(<<"v1">>), Str(<<"v2">>)},
     lo : {NoValue, OptMap(Opt("first", "-"), Opt("unique", "-")),
           OptMap(Opt("unique", "U"), NoOpt)}]

\* what the provider of the default hierarchy may hold; an empty list when
\* the configuration has no default hierarchy
DefaultData == {<<>>, <<[val |-> NoValue, lo |-> NoValue]>>,
                <<[val |-> Str(<<"dv">>), lo |-> NoValue]>>}

\* the merge strategy and the default value the caller gives, or does not
CallerMerges == {"-", "first", "unique"}
CallerDefaults == {NoValue, Str(<<>>), Str(<<"d">>)}

\* GetMergeStrategy(Deep, nil) and ic.ForLookupOptions()
BootStrategy_First == "first"

BootStrategy == "deep"
BootMode == "lookup_options"

\* deep merge of two lookup_options hashes: the hashes of a root are merged,
\* and an option that both give keeps the earlier value
DeepOpt(a, b) ==
    Opt(IF a.merge # "-" THEN a.merge ELSE b.merge,
        IF a.conv # "-" THEN a.conv ELSE b.conv)
DeepMerge(a, b) ==
    IF a.t # "map" THEN b
    ELSE IF b.t # "map" THEN a
    ELSE [t |-> "map", m |-> [r \in Roots |-> DeepOpt(a.m[r], b.m[r])]]

\* values are merged by the strategy: first keeps the value found first,
\* unique collects the values without repetition, deep merges hashes
InArray(arr, x) == \E i \in 1..Len(arr) : arr[i] = x
Merge(strategy, acc, v) ==
    IF v.t = "none" THEN acc
    ELSE IF acc.t = "none"
      THEN IF strategy = "unique" THEN [t |-> "array", s |-> v.s] ELSE v
    ELSE IF strategy = "first" THEN acc
    ELSE IF strategy = "deep" THEN DeepMerge(acc, v)
    ELSE IF InArray(acc.s, v.s[1]) THEN acc
    ELSE [t |-> "array", s |-> acc.s \o v.s]

\* resolvedConfig.LookupOptions(key)
LookupOptions(options, root) ==
    IF options.t # "nil" THEN options.m[root] ELSE NoOpt

SelectStrategy_Caller(lo, caller) == IF caller # "-" THEN caller ELSE "first"

\* the strategy of a lookup: the merge option of the root, else the one the
\* caller gives, else first
SelectStrategy(lo, caller) ==
    IF lo.merge # "-" THEN lo.merge
    ELSE IF caller # "-" THEN caller
    ELSE "first"

\* the providers the strategy runs over
ProvidersOf(which) == IF which = "default" THEN lDefault ELSE lProv

Merged_Exhaust(strategy, acc, idx, n) == idx > n

\* the strategy needs no further provider
Merged(strategy, acc, idx, n) == idx > n \/ (strategy = "first" /\ acc.t # "none")

LookInit ==
    /\ lProv \in {<<a, b>> : a \in FirstData, b \in SecondData}
    /\ lDefault \in DefaultData
    /\ lCaller \in [merge : CallerMerges, dflt : CallerDefaults]
    /\ lKey = "-"
    /\ lPhase = "idle"
    /\ lOptions = NilMap
    /\ lMode = "-"
    /\ lStrategy = "-"
    /\ lWhich = "-"
    /\ lIdx = 0
    /\ lAcc = NoValue
    /\ lLog = <<>>
    /\ lResult = NoValue

LookIdle ==
    /\ lProv = <<>>
    /\ lDefault = <<>>
    /\ lCaller = [merge |-> "-", dflt |-> NoValue]
    /\ lKey = "-"
    /\ lPhase = "off"
    /\ lOptions = NilMap
    /\ lMode = "-"
    /\ lStrategy = "-"
    /\ lWhich = "-"
    /\ lIdx = 0
    /\ lAcc = NoValue
    /\ lLog = <<>>
    /\ lResult = NoValue

\* hieraCfg.Resolve: the providers are created, and the lookup of
\* lookup_options starts with the deep strategy on ic.ForLookupOptions()
CfgResolve ==
    /\ lPhase = "idle"
    /\ lPhase' = "boot"
    /\ lOptions' = NilMap
    /\ lKey' = "lookup_options"
    /\ lMode' = BootMode
    /\ lStrategy' = BootStrategy
    /\ lWhich' = "hierarchy"
    /\ lIdx' = 1
    /\ lAcc' = NoValue
    /\ UNCHANGED <<lProv, lDefault, lCaller, lLog, lResult>>
    /\ UNCHANGED notLook

\* pr.UncheckedLookup(k, ic, ms) on the next provider of the hierarchy
BootCall ==
    /\ lPhase = "boot"
    /\ ~Merged(lStrategy, lAcc, lIdx, Len(lProv))
    /\ lLog' = Append(lLog, [p |-> lIdx, which |-> lWhich, key |-> lKey, mode |-> lMode,
                             options |-> lOptions])
    /\ lAcc' = Merge(lStrategy, lAcc, lProv[lIdx].lo)
    /\ lIdx' = lIdx + 1
    /\ UNCHANGED <<lProv, lDefault, lCaller, lKey, lPhase, lOptions, lMode, lStrategy,
                   lWhich, lResult>>
    /\ UNCHANGED notLook

\* the lookup has returned: r.lookupOptions = lo when the value is a hash
BootReturn ==
    /\ lPhase = "boot"
    /\ Merged(lStrategy, lAcc, lIdx, Len(lProv))
    /\ lOptions' = IF lAcc.t = "map" THEN lAcc ELSE lOptions
    /\ lPhase' = "ready"
    /\ lAcc' = NoValue
    /\ lIdx' = 0
    /\ lKey' = "-"
    /\ lMode' = "-"
    /\ lStrategy' = "-"
    /\ lWhich' = "-"
    /\ UNCHANGED <<lProv, lDefault, lCaller, lLog, lResult>>
    /\ UNCHANGED notLook

\* the lookup of a key starts: the strategy is chosen and runs over the
\* hierarchy
Lookup ==
    /\ lPhase = "ready"
    /\ \E key \in Roots :
         /\ lKey' = key
         /\ lStrategy' = SelectStrategy(LookupOptions(lOptions, key), lCaller.merge)
    /\ lPhase' = "look"
    /\ lMode' = "normal"
    /\ lWhich' = "hierarchy"
    /\ lIdx' = 1
    /\ lAcc' = NoValue
    /\ UNCHANGED <<lProv, lDefault, lCaller, lOptions, lLog, lResult>>
    /\ UNCHANGED notLook

\* the strategy asks the next provider
LookCall ==
    /\ lPhase = "look"
    /\ ~Merged(lStrategy, lAcc, lIdx, Len(ProvidersOf(lWhich)))
    /\ lLog' = Append(lLog, [p |-> lIdx, which |-> lWhich, key |-> lKey, mode |-> lMode,
                             options |-> lOptions])
    /\ lAcc' = Merge(lStrategy, lAcc, ProvidersOf(lWhich)[lIdx].val)
    /\ lIdx' = lIdx + 1
    /\ UNCHANGED <<lProv, lDefault, lCaller, lKey, lPhase, lOptions, lMode, lStrategy,
                   lWhich, lResult>>
    /\ UNCHANGED notLook

\* nothing was found in the hierarchy and there is a default hierarchy: the
\* strategy runs over it
LookDefaultHierarchy ==
    /\ lPhase = "look"
    /\ lWhich = "hierarchy"
    /\ Merged(lStrategy, lAcc, lIdx, Len(lProv))
    /\ lAcc.t = "none"
    /\ lDefault # <<>>
    /\ lWhich' = "default"
    /\ lIdx' = 1
    /\ UNCHANGED <<lProv, lDefault, lCaller, lKey, lPhase, lOptions, lMode, lStrategy,
                   lAcc, lLog, lResult>>
    /\ UNCHANGED notLook

DefaultFor_Always(acc, dflt) == IF dflt.t # "none" THEN dflt ELSE acc

\* the result, or the default of the caller, or not found
DefaultFor(acc, dflt) == IF acc.t # "none" THEN acc ELSE dflt

\* the lookup returns
LookReturn ==
    /\ lPhase = "look"
    /\ Merged(lStrategy, lAcc, lIdx, Len(ProvidersOf(lWhich)))
    /\ lAcc.t # "none" \/ lWhich = "default" \/ lDefault = <<>>
    /\ lResult' = DefaultFor(lAcc, lCaller.dflt)
    /\ lPhase' = "done"
    /\ UNCHANGED <<lProv, lDefault, lCaller, lKey, lOptions, lMode, lStrategy, lWhich,
                   lIdx, lAcc, lLog>>
    /\ UNCHANGED notLook

LookNext ==
    \/ CfgResolve
    \/ BootCall
    \/ BootReturn
    \/ Lookup
    \/ LookCall
    \/ LookDefaultHierarchy
    \/ LookReturn

\* ------------------------------------------------------------------------
\* Properties of the resolved configuration and of the lookup
\* ------------------------------------------------------------------------
BootCalls == {i \in 1..Len(lLog) : lLog[i].key = "lookup_options"}
KeyCalls == {i \in 1..Len(lLog) : lLog[i].key # "lookup_options"}
Resolved == lPhase \in {"ready", "look", "done"}

\* C14: while hieraCfg.Resolve looks up lookup_options, the strategy is
\* deep, the invocation is the one that ForLookupOptions derived, and the
\* lookup options of the resolved configuration are nil at every call of a
\* provider; they are assigned when the lookup has returned a hash, which is
\* the deep merge of what the providers hold, and stay nil otherwise
C14_BootstrapLookup ==
    /\ lPhase = "boot"
         => (/\ lOptions = NilMap
             /\ lStrategy = "deep"
             /\ lMode = "lookup_options"
             /\ lKey = "lookup_options")
    /\ \A i \in BootCalls :
         lLog[i].options = NilMap /\ lLog[i].mode = "lookup_options"
    /\ Resolved
         => (/\ BootCalls = 1..Len(lProv)
             /\ lProv[1].lo.t = "none" /\ lProv[2].lo.t = "none" => lOptions = NilMap
             /\ lProv[1].lo.t = "map" /\ lProv[2].lo.t = "none" => lOptions = lProv[1].lo
             /\ lProv[1].lo.t = "none" /\ lProv[2].lo.t = "map" => lOptions = lProv[2].lo
             /\ (lProv[1].lo = OptMap(Opt("-", "T"), NoOpt)
                   /\ lProv[2].lo = OptMap(Opt("unique", "U"), NoOpt))
                  => lOptions = OptMap(Opt("unique", "T"), NoOpt)
             /\ (lProv[1].lo = OptMap(Opt("unique", "-"), NoOpt)
                   /\ lProv[2].lo = OptMap(Opt("first", "-"), Opt("unique", "-")))
                  => lOptions = OptMap(Opt("unique", "-"), Opt("unique", "-")))

C14_Witness ==
    /\ lPhase = "ready"
    /\ lProv[1].lo = OptMap(Opt("-", "T"), NoOpt)
    /\ lProv[2].lo = OptMap(Opt("unique", "U"), NoOpt)
    /\ lOptions = OptMap(Opt("unique", "T"), NoOpt)
    /\ Len(lLog) = 2

Looking == lPhase \in {"look", "done"}

\* C15: the strategy of a lookup is the merge option that lookup_options
\* holds for the root of the key when it holds one, whatever the caller
\* gives; else the strategy the caller gives; else first. The strategy chosen
\* is the one that runs: unique collects what both providers hold where
\* first would return the value of the first
C15_MergeStrategy ==
    /\ (Looking /\ lOptions.t = "map" /\ lOptions.m[lKey].merge # "-")
         => lStrategy = lOptions.m[lKey].merge
    /\ (Looking /\ (lOptions.t = "nil" \/ lOptions.m[lKey].merge = "-")
          /\ lCaller.merge # "-")
         => lStrategy = lCaller.merge
    /\ (Looking /\ (lOptions.t = "nil" \/ lOptions.m[lKey].merge = "-")
          /\ lCaller.merge = "-")
         => lStrategy = "first"
    /\ (lPhase = "done" /\ lProv[1].val = Str(<<"v1">>) /\ lProv[2].val = Str(<<"v2">>))
         => lResult = IF lStrategy = "unique" THEN [t |-> "array", s |-> <<"v1", "v2">>]
                      ELSE Str(<<"v1">>)

C15_Witness ==
    /\ lPhase = "done"
    /\ lKey = "k"
    /\ lOptions.m.k.merge = "unique"
    /\ lCaller.merge = "first"
    /\ lStrategy = "unique"
    /\ lProv[1].val = Str(<<"v1">>)
    /\ lProv[2].val = Str(<<"v2">>)
    /\ lResult = [t |-> "array", s |-> <<"v1", "v2">>]

\* the providers of a hierarchy that the lookup of the key has called, in
\* the order of the calls
RECURSIVE CallsOf(_, _)
CallsOf(log, which) ==
    IF log = <<>> THEN <<>>
    ELSE IF Head(log).key # "lookup_options" /\ Head(log).which = which
      THEN <<Head(log).p>> \o CallsOf(Tail(log), which)
    ELSE CallsOf(Tail(log), which)
InOrder(calls) == \A i \in 1..Len(calls) : calls[i] = i

\* the first provider of the hierarchy that holds the key; one more than
\* the number of providers when none does
FirstHit ==
    IF lProv[1].val.t # "none" THEN 1 ELSE IF lProv[2].val.t # "none" THEN 2 ELSE 3

\* C16: the providers are called in the order of the hierarchy, none
\* skipped and none twice; under the first strategy the calls end with the
\* first provider that finds the key, whose value is the result, the
\* providers before it having found nothing and those after it not being
\* called; when no provider of the hierarchy finds the key all are called
C16_HierarchyOrder ==
    /\ InOrder(CallsOf(lLog, "hierarchy"))
    /\ InOrder(CallsOf(lLog, "default"))
    /\ (Looking /\ lStrategy = "first")
         => Len(CallsOf(lLog, "hierarchy")) <= FirstHit
    /\ (lPhase = "done" /\ lStrategy = "first" /\ FirstHit <= Len(lProv))
         => (/\ Len(CallsOf(lLog, "hierarchy")) = FirstHit
             /\ lResult = lProv[FirstHit].val
             /\ CallsOf(lLog, "default") = <<>>)
    /\ (lPhase = "done" /\ (lStrategy # "first" \/ FirstHit > Len(lProv)))
         => Len(CallsOf(lLog, "hierarchy")) = Len(lProv)

C16_Witness ==
    /\ lPhase = "done"
    /\ lStrategy = "first"
    /\ lProv[1].val = Str(<<"v1">>)
    /\ lProv[2].val = Str(<<"v2">>)
    /\ CallsOf(lLog, "hierarchy") = <<1>>
    /\ lResult = Str(<<"v1">>)

\* no provider of the hierarchy or of the default hierarchy holds the key
NothingFound ==
    /\ \A i \in 1..Len(lProv) : lProv[i].val.t = "none"
    /\ \A i \in 1..Len(lDefault) : lDefault[i].val.t = "none"

\* C17: when neither the hierarchy nor the default hierarchy holds the key,
\* the result is the default of the caller when one is given, the empty
\* string included, and not found when none is given; when a provider holds
\* the key the result is never the default: it is what the providers hold,
\* and the default hierarchy is asked only when the hierarchy found nothing
C17_DefaultValue ==
    /\ (lPhase = "done" /\ NothingFound) => lResult = lCaller.dflt
    /\ (lPhase = "done" /\ ~NothingFound)
         => (/\ lResult.t \in {"str", "array"}
             /\ lResult.s # <<>>
             /\ lResult # lCaller.dflt
             /\ \A i \in 1..Len(lResult.s) : lResult.s[i] \in {"v1", "v2", "dv"})
    /\ (lPhase = "done" /\ FirstHit > Len(lProv) /\ lDefault # <<>>
          /\ lDefault[1].val.t # "none")
         => lResult.s = <<"dv">>
    /\ FirstHit <= Len(lProv) => CallsOf(lLog, "default") = <<>>

C17_Witness ==
    /\ lPhase = "done"
    /\ NothingFound
    /\ lDefault # <<>>
    /\ lCaller.dflt = Str(<<>>)
    /\ lResult = Str(<<>>)
    /\ Len(CallsOf(lLog, "default")) = 1

\* ------------------------------------------------------------------------
\* MuxLookup
\* ------------------------------------------------------------------------
\* what a lookup-key function of the slice does when it is called
Behaviours == {"found_v1", "found_v2", "found_nil", "notfound", "notfound_junk"}

\* lk(c, key, options)
Call(f) ==
    IF f = "found_v1" THEN [val |-> "v1", ok |-> TRUE]
    ELSE IF f = "found_v2" THEN [val |-> "v2", ok |-> TRUE]
    ELSE IF f = "found_nil" THEN [val |-> "nil", ok |-> TRUE]
    ELSE IF f = "notfound_junk" THEN [val |-> "junk", ok |-> FALSE]
    ELSE [val |-> "nil", ok |-> FALSE]

\* what options[LookupProvidersKey] may be: missing, a value that is no
\* RuntimeValue, a RuntimeValue of something else than []lookup.LookupKey, or
\* a slice of lookup-key functions
Funcs(fs) == [t |-> "funcs", fs |-> fs]
NoFuncs(t) == [t |-> t, fs |-> <<>>]
ProviderOptions ==
    {NoFuncs("missing"), NoFuncs("string"), NoFuncs("runtime_other")}
      \cup {Funcs(fs) : fs \in UNION {[1..n -> Behaviours] : n \in 0..MaxFuncs}}

Found_NonNil(r) == r.ok /\ r.val # "nil"

\* if result, ok = lk(c, key, options); ok
Found(r) == r.ok

\* return nil, false
NilNotFound == [val |-> "nil", ok |-> FALSE]
NotCalled == [val |-> "-", ok |-> FALSE]

MuxInit ==
    /\ mOpt \in ProviderOptions
    /\ mPhase = "idle"
    /\ mIdx = 0
    /\ mCalls = <<>>
    /\ mResult = NotCalled

MuxIdle ==
    /\ mOpt = NoFuncs("missing")
    /\ mPhase = "off"
    /\ mIdx = 0
    /\ mCalls = <<>>
    /\ mResult = NotCalled

\* MuxLookup is called: the option is the slice and the loop starts
MuxLookup ==
    /\ mPhase = "idle"
    /\ mOpt.t = "funcs"
    /\ mPhase' = "loop"
    /\ mIdx' = 1
    /\ UNCHANGED <<mOpt, mCalls, mResult>>
    /\ UNCHANGED notMux

\* MuxLookup is called: the option is missing or of another type
MuxNoProviders ==
    /\ mPhase = "idle"
    /\ mOpt.t # "funcs"
    /\ mPhase' = "done"
    /\ mResult' = NilNotFound
    /\ UNCHANGED <<mOpt, mIdx, mCalls>>
    /\ UNCHANGED notMux

\* the next function of the slice is called; what it finds is returned
MuxCall ==
    /\ mPhase = "loop"
    /\ mIdx <= Len(mOpt.fs)
    /\ mCalls' = Append(mCalls, mIdx)
    /\ IF Found(Call(mOpt.fs[mIdx]))
         THEN /\ mResult' = Call(mOpt.fs[mIdx])
              /\ mPhase' = "done"
              /\ mIdx' = mIdx
         ELSE /\ mIdx' = mIdx + 1
              /\ UNCHANGED <<mResult, mPhase>>
    /\ UNCHANGED mOpt
    /\ UNCHANGED notMux

\* the slice is exhausted
MuxNotFound ==
    /\ mPhase = "loop"
    /\ mIdx > Len(mOpt.fs)
    /\ mPhase' = "done"
    /\ mResult' = NilNotFound
    /\ UNCHANGED <<mOpt, mIdx, mCalls>>
    /\ UNCHANGED notMux

MuxNext ==
    \/ MuxLookup
    \/ MuxNoProviders
    \/ MuxCall
    \/ MuxNotFound

\* the functions of the slice that find the key
Finders == {i \in 1..Len(mOpt.fs) : mOpt.fs[i] \in {"found_v1", "found_v2", "found_nil"}}
FirstFinder == CHOOSE i \in Finders : \A j \in Finders : i <= j

\* C18: MuxLookup calls the functions of the slice in slice order, each at
\* most once; it returns what the first function that finds the key returns,
\* a null included, and calls no function after it; a function that does not
\* find the key is followed by the next one; when no function finds the key,
\* or the option is missing or is not a slice of lookup-key functions, the
\* result is nil and not found
C18_MuxLookup ==
    /\ \A i \in 1..Len(mCalls) : mCalls[i] = i
    /\ Finders # {} => Len(mCalls) <= FirstFinder
    /\ (mPhase = "done" /\ Finders # {})
         => (/\ Len(mCalls) = FirstFinder
             /\ mResult.ok
             /\ mResult.val = (IF mOpt.fs[FirstFinder] = "found_v1" THEN "v1"
                               ELSE IF mOpt.fs[FirstFinder] = "found_v2" THEN "v2"
                               ELSE "nil"))
    /\ (mPhase = "done" /\ Finders = {})
         => (mResult = NilNotFound /\ Len(mCalls) = Len(mOpt.fs))

C18_Witness ==
    /\ mPhase = "done"
    /\ mOpt = Funcs(<<"notfound_junk", "found_nil", "found_v1">>)
    /\ mCalls = <<1, 2>>
    /\ mResult = [val |-> "nil", ok |-> TRUE]

\* ------------------------------------------------------------------------
\* path.Resolve on its own
\* ------------------------------------------------------------------------
\* the paths as configured: relative and absolute, with and without
\* interpolations, and one that holds a method expression
Originals ==
    { <<"common.yaml">>,
      <<"named_", "%{dir}", ".yaml">>,
      <<"%{dir}", "/", "named_", "%{dir}", ".yaml">>,
      <<"%{fn}">>,
      <<"%{}">>,
      <<"/", "etc", "/", "data", "/", "common.yaml">>,
      <<"/", "etc", "/", "%{dir}", "/", "named_", "by_fact", ".yaml">>,
      <<"/", "abs", "/", "x.yaml">>,
      <<"%{lookup('a')}">> }
DataRoots == {<<"/", "etc", "/", "data">>, <<"/", "etc", "/", "by_fact">>, <<"/", "etc">>}
NoLocations == [err |-> FALSE, l |-> <<>>]

PathInit ==
    /\ pLoc \in {Location("path", o) : o \in Originals}
    /\ pDataRoot \in DataRoots
    /\ pScope \in SUBSET ScopeVars
    /\ pPhase = "idle"
    /\ pResult = NoLocations

PathIdle ==
    /\ pLoc = Location("path", <<>>)
    /\ pDataRoot = <<>>
    /\ pScope = {}
    /\ pPhase = "off"
    /\ pResult = NoLocations

\* p.Resolve(ic, dataDir) returns its locations
PathReturn ==
    /\ pPhase = "idle"
    /\ ~PathResolve(pLoc, pScope, pDataRoot).err
    /\ pResult' = PathResolve(pLoc, pScope, pDataRoot)
    /\ pPhase' = "done"
    /\ UNCHANGED <<pLoc, pDataRoot, pScope>>
    /\ UNCHANGED notPath

\* the interpolation of the original panics
PathPanic ==
    /\ pPhase = "idle"
    /\ PathResolve(pLoc, pScope, pDataRoot).err
    /\ pResult' = [err |-> TRUE, l |-> <<>>]
    /\ pPhase' = "failed"
    /\ UNCHANGED <<pLoc, pDataRoot, pScope>>
    /\ UNCHANGED notPath

PathNext ==
    \/ PathReturn
    \/ PathPanic

\* the original after interpolation
Interpolated == Replace(pLoc.original, pScope)

\* C19: path.Resolve returns exactly one location, which keeps the
\* original as configured; its resolved path is the interpolated original
\* itself when that is absolute and the interpolated original joined to the
\* data root otherwise, and it exists exactly when the stat of the resolved
\* path succeeds
C19_PathResolve ==
    pPhase = "done"
      => (/\ Len(pResult.l) = 1
          /\ pResult.l[1].original = pLoc.original
          /\ pResult.l[1].resolved =
               (IF IsAbs(Interpolated) THEN DropTrailing(Clean(Interpolated))
                ELSE Join(pDataRoot, Interpolated))
          /\ pResult.l[1].exists <=> Stat(pResult.l[1].resolved))

\* ------------------------------------------------------------------------
\* The tracking scope
\* ------------------------------------------------------------------------
\* the names read and set, and the key of a name in the map of reads
Names == {"x", "::x", "y"}
ReadKeys == {"x", "y"}

\* strings.HasPrefix(name, `::`) => name[2:]
KeyOf(name) == IF name = "::x" THEN "x" ELSE name

\* a variable of the tracked scope: what tracked.State(name) and
\* tracked.Get(name) give
Var(state, val) == [state |-> state, val |-> val]
NotFound == Var("NotFound", "nil")
TrackedVars == {NotFound, Var("Global", "v1"), Var("Local", "v1")}
NewValues == {"v1", "v2"}

\* the map of reads has no entry for the key
NoEntry == "absent"

\* the last Get of a key: none yet, or what it found
Never == Var("never", "nil")

Track_Always(read, key, v) ==
    [read EXCEPT ![key] = v.val]

\* trackingScope.Get: what becomes of the map of reads
Track(read, key, v) ==
    IF v.state # "NotFound"
      THEN IF v.state = "Global"
             THEN [read EXCEPT ![key] = NoEntry]
             ELSE [read EXCEPT ![key] = v.val]
      ELSE [read EXCEPT ![key] = "nil"]

TsInit ==
    /\ tTracked \in [Names -> TrackedVars]
    /\ tRead = [k \in ReadKeys |-> NoEntry]
    /\ tLast = [k \in ReadKeys |-> Never]
    /\ tOps = 0

TsIdle ==
    /\ tTracked = [n \in Names |-> NotFound]
    /\ tRead = [k \in ReadKeys |-> NoEntry]
    /\ tLast = [k \in ReadKeys |-> Never]
    /\ tOps = MaxGets

\* t.Get(name)
TsGet ==
    /\ tOps < MaxGets
    /\ \E name \in Names :
         /\ tRead' = Track(tRead, KeyOf(name), tTracked[name])
         /\ tLast' = [tLast EXCEPT ![KeyOf(name)] = tTracked[name]]
    /\ tOps' = tOps + 1
    /\ UNCHANGED tTracked
    /\ UNCHANGED notTs

\* t.Set(name, value) goes to the tracked scope, which does not change a
\* global variable that has a value
TsSet ==
    /\ tOps < MaxGets
    /\ \E name \in Names, v \in NewValues :
         /\ tTracked[name].state # "Global"
         /\ tTracked' = [tTracked EXCEPT ![name] = Var("Local", v)]
    /\ tOps' = tOps + 1
    /\ UNCHANGED <<tRead, tLast>>
    /\ UNCHANGED notTs

TsNext ==
    \/ TsGet
    \/ TsSet

C24_ChangedIffReplaced ==
    iPhase = "done" => (iChanged <=> \E i \in 1..Len(iStr) : IsMatch(iStr[i]))

\* ------------------------------------------------------------------------
\* The function of a provider: how it is found and what it is called with
\* ------------------------------------------------------------------------
FKinds == {"data_hash", "data_dig"}
FNames == {"yaml_data", "json_data", "custom"}

\* the names registered in the "function" namespace of the session's loader
FSessions == SUBSET {"yaml_data", "custom"}

\* the plugin executable: it provides the function, it starts without
\* providing it, or startPlugin panics
FPlugins == {"provides", "lacks", "fails"}

\* the locations of the entry: nil, or one of two resolved files
FLocs == {NoLoc, "a.yaml", "b.yaml"}

\* switch n { case `yaml_data`: ... case `json_data`: ... } of
\* DataHashProvider.loadFunction; DataDigProvider.loadFunction has no switch
BuiltIn(kind, n) == kind = "data_hash" /\ n \in {"yaml_data", "json_data"}

\* fn, ok = l.Namespace(`function`).Get(n).(dgo.Function)
InSession(n, session) == n \in session

LoadFunction_SessionFirst(kind, n, session) ==
    IF InSession(n, session) THEN "session"
    ELSE IF BuiltIn(kind, n) THEN "builtin"
    ELSE "plugin"

\* where the function of a provider comes from: the switch of the provider,
\* then the function namespace, then the plugin namespace
LoadFunction(kind, n, session) ==
    IF BuiltIn(kind, n) THEN "builtin"
    ELSE IF InSession(n, session) THEN "session"
    ELSE "plugin"

\* what a function is called with: nothing yet
NoArg == [ctx |-> "none", call |-> 0, path |-> NoLoc]

\* ic.ServerContext(dh.hierarchyEntry, opts) of a call: the options of the
\* entry, with path set to the resolved location when there is one
ServerContext(call, loc) == [ctx |-> "provider", call |-> call, path |-> loc]

\* the Invocation of a call; it carries no options of the entry
InvocationOf(call) == [ctx |-> "invocation", call |-> call, path |-> NoLoc]

\* the first argument the function receives: a built-in and the closure of
\* DataHashProvider.loadFunction pass pc on; the closure of
\* DataDigProvider.loadFunction passes the ic its loadFunction was called
\* with; the function returned for an unresolved name calls nothing
Received(kind, func, call, loadCall, loc) ==
    IF func = "unresolved" THEN NoArg
    ELSE IF kind = "data_hash" THEN ServerContext(call, loc)
    ELSE InvocationOf(loadCall)

LoadInit ==
    /\ fKind \in FKinds
    /\ fName \in FNames
    /\ fSession \in FSessions
    /\ fPlugin \in FPlugins
    /\ fFunc = "nil"
    /\ fStarts = 0
    /\ fpc = "idle"
    /\ fLoc = NoLoc
    /\ fCall = 0
    /\ fLoadCall = 0
    /\ fArg = NoArg

LoadIdle ==
    /\ fKind = "data_hash"
    /\ fName = "yaml_data"
    /\ fSession = {}
    /\ fPlugin = "lacks"
    /\ fFunc = "nil"
    /\ fStarts = 0
    /\ fpc = "idle"
    /\ fLoc = NoLoc
    /\ fCall = 0
    /\ fLoadCall = 0
    /\ fArg = NoArg

\* LookupKey of the provider with a location: providerFunction tests
\* providerFunc
FLookupKey(loc) ==
    /\ fpc = "idle"
    /\ fCall < MaxCalls
    /\ fCall' = fCall + 1
    /\ fLoc' = loc
    /\ fArg' = NoArg
    /\ fpc' = IF fFunc = "nil" THEN "load" ELSE "call"
    /\ UNCHANGED <<fKind, fName, fSession, fPlugin, fFunc, fStarts, fLoadCall>>
    /\ UNCHANGED notLoad

\* loadFunction of the provider up to the plugin namespace
FLoad ==
    /\ fpc = "load"
    /\ LET from == LoadFunction(fKind, fName, fSession)
       IN  IF from = "plugin"
             THEN /\ fpc' = "start"
                  /\ UNCHANGED <<fFunc, fLoadCall>>
             ELSE /\ fpc' = "call"
                  /\ fFunc' = from
                  /\ fLoadCall' = fCall
    /\ UNCHANGED <<fKind, fName, fSession, fPlugin, fStarts, fLoc, fCall, fArg>>
    /\ UNCHANGED notLoad

\* l.Get(n) in the plugin namespace: pluginFinder starts the plugin; a panic
\* of startPlugin ends the call and leaves providerFunc nil
FStart ==
    /\ fpc = "start"
    /\ fStarts' = fStarts + 1
    /\ IF fPlugin = "fails"
         THEN /\ fpc' = "idle"
              /\ UNCHANGED <<fFunc, fLoadCall>>
         ELSE /\ fpc' = "call"
              /\ fFunc' = IF fPlugin = "provides" THEN "plugin" ELSE "unresolved"
              /\ fLoadCall' = fCall
    /\ UNCHANGED <<fKind, fName, fSession, fPlugin, fLoc, fCall, fArg>>
    /\ UNCHANGED notLoad

\* the provider calls its function
FCall ==
    /\ fpc = "call"
    /\ fArg' = Received(fKind, fFunc, fCall, fLoadCall, fLoc)
    /\ fpc' = "idle"
    /\ UNCHANGED <<fKind, fName, fSession, fPlugin, fFunc, fStarts, fLoc, fCall,
                   fLoadCall>>
    /\ UNCHANGED notLoad

LoadNext ==
    \/ \E loc \in FLocs : FLookupKey(loc)
    \/ FLoad
    \/ FStart
    \/ FCall

\* C21: the function of a provider is the built-in of its name when the
\* provider has one, also when the session registers the name; else the
\* function the session registers; a plugin is started only when the name is
\* neither, and its outcome is used only then
C21_ResolutionOrder ==
    /\ fFunc = "builtin" => BuiltIn(fKind, fName)
    /\ fFunc = "session" => (~BuiltIn(fKind, fName) /\ InSession(fName, fSession))
    /\ (fFunc \in {"plugin", "unresolved"} \/ fStarts > 0 \/ fpc = "start")
         => (~BuiltIn(fKind, fName) /\ ~InSession(fName, fSession))
    /\ (fFunc # "nil" /\ BuiltIn(fKind, fName)) => fFunc = "builtin"
    /\ (fFunc # "nil" /\ ~BuiltIn(fKind, fName) /\ InSession(fName, fSession))
         => fFunc = "session"

\* a data_hash provider has called the built-in of a name that the session
\* registers as well, and no plugin was started
C21_Witness ==
    /\ fKind = "data_hash"
    /\ fName = "yaml_data"
    /\ InSession(fName, fSession)
    /\ fFunc = "builtin"
    /\ fArg # NoArg
    /\ fStarts = 0

\* C25: after a LookupKey of a data_dig provider with a location, the
\* function has received the provider context built for that call, whose
\* path option is the resolved location of that call
C25_DigReceivesCallContext ==
    (/\ fKind = "data_dig"
     /\ fFunc \in {"session", "plugin"}
     /\ fpc = "idle"
     /\ fCall > 0
     /\ fLoc # NoLoc)
      => fArg = ServerContext(fCall, fLoc)

\* ------------------------------------------------------------------------
\* YamlLookupKey: calls that share the cache of one provider context
\* ------------------------------------------------------------------------
YamlInit ==
    /\ yCache = FALSE
    /\ ypc = [c \in Callers |-> "idle"]
    /\ yHit = [c \in Callers |-> FALSE]
    /\ yCalls = 0
    /\ yLeft = MaxLookups

\* YamlLookupKey(pc, key): a pc that is no ServerContext returns nil at once
YCall(c, isServer) ==
    /\ ypc[c] = "idle"
    /\ yLeft > 0
    /\ yLeft' = yLeft - 1
    /\ yHit' = [yHit EXCEPT ![c] = FALSE]
    /\ ypc' = [ypc EXCEPT ![c] = IF isServer THEN "check" ELSE "idle"]
    /\ UNCHANGED <<yCache, yCalls>>
    /\ UNCHANGED notYaml

\* data, ok := sc.CachedValue(YamlDataKey)
YCheck(c) ==
    /\ ypc[c] = "check"
    /\ yHit' = [yHit EXCEPT ![c] = yCache]
    /\ ypc' = [ypc EXCEPT ![c] = IF yCache THEN "get" ELSE "load"]
    /\ UNCHANGED <<yCache, yCalls, yLeft>>
    /\ UNCHANGED notYaml

\* data = YamlData(iv.ServerContext(nil, ...))
YLoad(c) ==
    /\ ypc[c] = "load"
    /\ yCalls' = yCalls + 1
    /\ ypc' = [ypc EXCEPT ![c] = "store"]
    /\ UNCHANGED <<yCache, yHit, yLeft>>
    /\ UNCHANGED notYaml

\* sc.Cache(YamlDataKey, data)
YStore(c) ==
    /\ ypc[c] = "store"
    /\ yCache' = TRUE
    /\ ypc' = [ypc EXCEPT ![c] = "get"]
    /\ UNCHANGED <<yHit, yCalls, yLeft>>
    /\ UNCHANGED notYaml

\* return hash.Get(key)
YReturn(c) ==
    /\ ypc[c] = "get"
    /\ ypc' = [ypc EXCEPT ![c] = "idle"]
    /\ UNCHANGED <<yCache, yHit, yCalls, yLeft>>
    /\ UNCHANGED notYaml

YamlNext ==
    \E c \in Callers :
        \/ \E isServer \in BOOLEAN : YCall(c, isServer)
        \/ YCheck(c)
        \/ YLoad(c)
        \/ YStore(c)
        \/ YReturn(c)

\* C22: over the calls that share one cache, YamlData is invoked at most once
C22_YamlDataOnce == yCalls <= 1

\* ------------------------------------------------------------------------
\* entry.Resolve called again and again on one entry
\* ------------------------------------------------------------------------
\* the entries resolved: each field nil, plain, or holding an interpolation
ResEntries ==
    {[NewEntry(<<"e">>) EXCEPT !.dataDir = d, !.function = f, !.options = o,
                               !.locations = l] :
        d \in {<<>>, <<"data">>, <<"%{dir}">>},
        f \in {NilFunction, [kind |-> "data_hash", name |-> <<"%{fn}">>]},
        o \in {NilOptions, [isNil |-> FALSE, m |-> <<[k |-> "path", v |-> <<"x", "%{fn}">>]>>]},
        l \in {NilLocations,
               [isNil |-> FALSE, l |-> <<Location("path", <<"%{dir}", ".yaml">>),
                                         Location("uri", <<"http:", "/", "/", "h">>)>>]}}

\* the defaults entry of the configuration
ResDefaults ==
    [NewEntry(<<>>) EXCEPT !.dataDir = <<"/", "abs">>,
                           !.function = [kind |-> "data_hash", name |-> <<"json_data">>]]

Receiver_Aliased(e, ce) == ce

\* ce := *e: the assignments of Resolve go to the fields of the copy, and
\* the receiver keeps its own
Receiver(e, ce) == e

ResInit ==
    /\ rOrig \in ResEntries
    /\ rRecv = rOrig
    /\ rOut = <<>>

\* e.Resolve(ic, defaults) under the scope of ic
Resolve(scope, hasDefaults) ==
    /\ Len(rOut) < MaxResolves
    /\ LET r == ResolveEntry(rRecv, hasDefaults, ResDefaults, scope)
       IN  /\ rOut' = Append(rOut, [scope |-> scope, def |-> hasDefaults, res |-> r])
           /\ rRecv' = Receiver(rRecv, r.entry)
    /\ UNCHANGED rOrig
    /\ UNCHANGED notRes

ResNext == \E scope \in SUBSET ScopeVars, hasDefaults \in BOOLEAN : Resolve(scope, hasDefaults)

RecNames == {"a", "b"}

\* the expression that names a variable, and the variable an expression names
RecExpr(v) == IF v = "a" THEN "%{a}" ELSE "%{b}"
RecExprs == {RecExpr(v) : v \in RecNames}
RecKey(tok) == CHOOSE v \in RecNames : RecExpr(v) = tok

\* the value of a variable: not in the scope, or a string of text and
\* expressions
Missing == <<"missing">>
RecValues == {Missing, <<"x">>, <<"%{a}">>, <<"%{b}">>, <<"x", "%{b}">>}
RecStrings == UNION {[1..n -> {"x"} \cup RecExprs] : n \in 1..MaxTokens}

\* one activation of interpolateString on str: the token reached and the
\* replacements so far
RecFrame(str) == [str |-> str, pos |-> 1, out |-> <<>>]

RecTop == sFrames[Len(sFrames)]
RecAtToken == sPhase = "run" /\ RecTop.pos <= Len(RecTop.str)
RecToken == RecTop.str[RecTop.pos]

\* the activation on top continues with what replaces its token
RecAdvance(frames, text) ==
    [frames EXCEPT ![Len(frames)] =
        [@ EXCEPT !.pos = @ + 1, !.out = @ \o text]]

RecInit ==
    /\ sScope \in [RecNames -> RecValues]
    /\ sStr \in RecStrings
    /\ sFrames = <<RecFrame(sStr)>>
    /\ sPhase = "run"
    /\ sResult = <<>>

\* text between the matches of iplPattern is kept
RecCopy ==
    /\ RecAtToken
    /\ RecToken \notin RecExprs
    /\ sFrames' = RecAdvance(sFrames, <<RecToken>>)
    /\ UNCHANGED <<sScope, sStr, sPhase, sResult>>
    /\ UNCHANGED notRec

\* case scopeMethod: ic.Scope().Get(key.Root()) finds nothing, return ``
RecMissing ==
    /\ RecAtToken
    /\ RecToken \in RecExprs
    /\ sScope[RecKey(RecToken)] = Missing
    /\ sFrames' = RecAdvance(sFrames, <<>>)
    /\ UNCHANGED <<sScope, sStr, sPhase, sResult>>
    /\ UNCHANGED notRec

\* case scopeMethod: the variable is found and doInterpolate is called on
\* its value, a new activation of interpolateString on the goroutine's stack
RecEnter ==
    /\ RecAtToken
    /\ RecToken \in RecExprs
    /\ sScope[RecKey(RecToken)] # Missing
    /\ Len(sFrames) < MaxDepth
    /\ sFrames' = Append(sFrames, RecFrame(sScope[RecKey(RecToken)]))
    /\ UNCHANGED <<sScope, sStr, sPhase, sResult>>
    /\ UNCHANGED notRec

\* the same call when the stack of the goroutine has reached its limit: the
\* runtime ends the process with a stack overflow
RecOverflow ==
    /\ RecAtToken
    /\ RecToken \in RecExprs
    /\ sScope[RecKey(RecToken)] # Missing
    /\ Len(sFrames) = MaxDepth
    /\ sPhase' = "overflow"
    /\ UNCHANGED <<sScope, sStr, sFrames, sResult>>
    /\ UNCHANGED notRec

\* doInterpolate returns the interpolated value; return val.String()
RecReturn ==
    /\ sPhase = "run"
    /\ Len(sFrames) > 1
    /\ RecTop.pos > Len(RecTop.str)
    /\ sFrames' = RecAdvance(SubSeq(sFrames, 1, Len(sFrames) - 1), RecTop.out)
    /\ UNCHANGED <<sScope, sStr, sPhase, sResult>>
    /\ UNCHANGED notRec

\* the outermost interpolateString returns
RecFinish ==
    /\ sPhase = "run"
    /\ Len(sFrames) = 1
    /\ RecTop.pos > Len(RecTop.str)
    /\ sResult' = RecTop.out
    /\ sFrames' = <<>>
    /\ sPhase' = "done"
    /\ UNCHANGED <<sScope, sStr>>
    /\ UNCHANGED notRec

RecNext ==
    \/ RecCopy
    \/ RecMissing
    \/ RecEnter
    \/ RecOverflow
    \/ RecReturn
    \/ RecFinish

\* C28: the interpolation of a string against a finite scope never recurses
\* up to the limit of the stack
C28_ScopeRecursionEnds == sPhase # "overflow"

\* ------------------------------------------------------------------------
\* plugin.kill called on one plugin
\* ------------------------------------------------------------------------
\* the plugin was started: its process is set; the child runs or has ended
KillInit ==
    /\ kLock = 0
    /\ kProcess = TRUE
    /\ kChild \in {"running", "exited"}
    /\ kReader = "reading"
    /\ kSigint \in BOOLEAN
    /\ kpc = [t \in Threads |-> "idle"]
    /\ kLeft = MaxKills

\* a goroutine calls p.kill()
KillCall(t) ==
    /\ kpc[t] = "idle"
    /\ kLeft > 0
    /\ kLeft' = kLeft - 1
    /\ kpc' = [kpc EXCEPT ![t] = "lock"]
    /\ UNCHANGED <<kLock, kProcess, kChild, kReader, kSigint>>
    /\ UNCHANGED notKill

\* p.lock.Lock(); process := p.process; if process == nil { return }: the
\* return comes before the defer that unlocks is registered
KillLock(t) ==
    /\ kpc[t] = "lock"
    /\ kLock = 0
    /\ kLock' = t
    /\ kpc' = [kpc EXCEPT ![t] = IF kProcess THEN "signal" ELSE "idle"]
    /\ UNCHANGED <<kProcess, kChild, kReader, kSigint, kLeft>>
    /\ UNCHANGED notKill

\* process.Signal(syscall.SIGINT): when it fails the process is killed
KillSignal(t) ==
    /\ kpc[t] = "signal"
    /\ IF kSigint /\ kChild = "running"
         THEN /\ kpc' = [kpc EXCEPT ![t] = "wait"]
              /\ UNCHANGED kChild
         ELSE /\ kpc' = [kpc EXCEPT ![t] = "defer"]
              /\ kChild' = IF kChild = "running" THEN "killed" ELSE kChild
    /\ UNCHANGED <<kLock, kProcess, kReader, kSigint, kLeft>>
    /\ UNCHANGED notKill

\* select: process.Wait() returned, or three seconds passed and the process
\* is killed
KillWait(t) ==
    /\ kpc[t] = "wait"
    /\ \/ kChild' = "exited"
       \/ kChild' = "killed"
    /\ kpc' = [kpc EXCEPT ![t] = "defer"]
    /\ UNCHANGED <<kLock, kProcess, kReader, kSigint, kLeft>>
    /\ UNCHANGED notKill

\* the deferred function: p.wGroup.Wait(); p.process = nil; p.lock.Unlock()
KillDefer(t) ==
    /\ kpc[t] = "defer"
    /\ kReader = "done"
    /\ kProcess' = FALSE
    /\ kLock' = 0
    /\ kpc' = [kpc EXCEPT ![t] = "idle"]
    /\ UNCHANGED <<kChild, kReader, kSigint, kLeft>>
    /\ UNCHANGED notKill

\* the child ends by itself
KillChildExit ==
    /\ kChild = "running"
    /\ kChild' = "exited"
    /\ UNCHANGED <<kLock, kProcess, kReader, kSigint, kpc, kLeft>>
    /\ UNCHANGED notKill

\* the goroutine that reads the stdout of the child reaches io.EOF once the
\* child has ended: p.wGroup.Done()
KillReaderEof ==
    /\ kReader = "reading"
    /\ kChild # "running"
    /\ kReader' = "done"
    /\ UNCHANGED <<kLock, kProcess, kChild, kSigint, kpc, kLeft>>
    /\ UNCHANGED notKill

KillNext ==
    \/ \E t \in Threads :
        \/ KillCall(t)
        \/ KillLock(t)
        \/ KillSignal(t)
        \/ KillWait(t)
        \/ KillDefer(t)
    \/ KillChildExit
    \/ KillReaderEof

\* C30: a goroutine that has returned from kill does not hold the lock of
\* the plugin
C30_KillReleasesLock ==
    \A t \in Threads : kpc[t] = "idle" => kLock # t

\* ------------------------------------------------------------------------
\* Components at rest
\* ------------------------------------------------------------------------
YamlIdle ==
    /\ yCache = FALSE
    /\ ypc = [c \in Callers |-> "idle"]
    /\ yHit = [c \in Callers |-> FALSE]
    /\ yCalls = 0
    /\ yLeft = 0

ResIdle ==
    /\ rOrig = NewEntry(<<"e">>)
    /\ rRecv = NewEntry(<<"e">>)
    /\ rOut = <<>>

RecIdle ==
    /\ sScope = <<>>
    /\ sStr = <<>>
    /\ sFrames = <<>>
    /\ sPhase = "idle"
    /\ sResult = <<>>

KillIdle ==
    /\ kLock = 0
    /\ kProcess = FALSE
    /\ kChild = "exited"
    /\ kReader = "done"
    /\ kSigint = FALSE
    /\ kpc = [t \in Threads |-> "idle"]
    /\ kLeft = 0

\* ------------------------------------------------------------------------
\* The specifications: each runs one component while the others are idle
\* ------------------------------------------------------------------------
EarlierIdle == ProvInit /\ PlugInit /\ EntryIdle /\ CfgIdle
LaterIdle == IplIdle /\ LookIdle /\ MuxIdle /\ PathIdle /\ TsIdle
LastIdle == LoadIdle /\ YamlIdle /\ ResIdle /\ RecIdle /\ KillIdle

InitIpl ==
    EarlierIdle /\ IplInit /\ LookIdle /\ MuxIdle /\ PathIdle /\ TsIdle /\ LastIdle
SpecIpl == InitIpl /\ [][IplNext]_vars

InitLook ==
    EarlierIdle /\ IplIdle /\ LookInit /\ MuxIdle /\ PathIdle /\ TsIdle /\ LastIdle
SpecLook == InitLook /\ [][LookNext]_vars

InitMux ==
    EarlierIdle /\ IplIdle /\ LookIdle /\ MuxInit /\ PathIdle /\ TsIdle /\ LastIdle
SpecMux == InitMux /\ [][MuxNext]_vars

InitPath ==
    EarlierIdle /\ IplIdle /\ LookIdle /\ MuxIdle /\ PathInit /\ TsIdle /\ LastIdle
SpecPath == InitPath /\ [][PathNext]_vars

InitTs ==
    EarlierIdle /\ IplIdle /\ LookIdle /\ MuxIdle /\ PathIdle /\ TsInit /\ LastIdle
SpecTs == InitTs /\ [][TsNext]_vars

InitLoad ==
    EarlierIdle /\ LaterIdle /\ LoadInit /\ YamlIdle /\ ResIdle /\ RecIdle /\ KillIdle
SpecLoad == InitLoad /\ [][LoadNext]_vars

InitYaml ==
    EarlierIdle /\ LaterIdle /\ LoadIdle /\ YamlInit /\ ResIdle /\ RecIdle /\ KillIdle
SpecYaml == InitYaml /\ [][YamlNext]_vars

InitRes ==
    EarlierIdle /\ LaterIdle /\ LoadIdle /\ YamlIdle /\ ResInit /\ RecIdle /\ KillIdle
SpecRes == InitRes /\ [][ResNext]_vars

InitRec ==
    EarlierIdle /\ LaterIdle /\ LoadIdle /\ YamlIdle /\ ResIdle /\ RecInit /\ KillIdle
SpecRec == InitRec /\ [][RecNext]_vars

InitKill ==
    EarlierIdle /\ LaterIdle /\ LoadIdle /\ YamlIdle /\ ResIdle /\ RecIdle /\ KillInit
SpecKill == InitKill /\ [][KillNext]_vars

InitAll == ProvInit /\ PlugInit /\ EntryIdle /\ CfgIdle /\ LaterIdle /\ LastIdle

InitEntry == ProvInit /\ PlugInit /\ EntryInit /\ CfgIdle /\ LaterIdle /\ LastIdle

SpecEntry == InitEntry /\ [][EntryNext]_vars

InitCfg == ProvInit /\ PlugInit /\ EntryIdle /\ CfgInit /\ LaterIdle /\ LastIdle

SpecCfg == InitCfg /\ [][CfgNext]_vars

SpecPlugin == InitAll /\ [][PlugNext]_vars

SpecProv == InitAll /\ [][ProvNext]_vars

====
